---- MODULE Spec2Model ----
(***************************************************************************)
(* Meadow-of-Mind: the VisualizerCanvas animation loop (animate), its      *)
(* mount / cleanup effect, and the parts of App that drive it (status,     *)
(* pause, game over, restart, hand tracking results, xp).                  *)
(*                                                                         *)
(* Numbers.  JavaScript numbers are modelled in fixed point:               *)
(*   positions and velocities   in 1/100 world unit  (Scale)               *)
(*   hand signals, times, angles, environment values in 1/1000 or 1/100,   *)
(*   as noted at each definition.                                          *)
(* Distances are compared exactly (no square root is taken, the squares    *)
(* are compared), split in a high and a low part to stay within TLC's      *)
(* integers.                                                               *)
(***************************************************************************)
EXTENDS Integers, Sequences, FiniteSets, TLC

\* ------------------------------------------------------------------ bounds
\* number of animation-frame callbacks a behaviour may run
MaxFrames == 3

\* cosmetic selections per canvas instance
MaxEquips == 2

\* ticks of the environment over which the blending is followed
MaxBlendTicks == 150

\* ticks of the movement logic over which the velocity is followed
MaxMoveTicks == 60

\* tracker results and audio samples taken in the signal specification
MaxResults == 2

\* frames run in the signal specification
MaxSignalFrames == 2

\* purchase and equip requests made in the shop specification
MaxRequests == 2

\* frames run in the shop specification
MaxShopFrames == 1

\* ------------------------------------------------------- program constants
GAME_OVER_RADIUS == 8000
ShardCount == 150
COLLECT_RADIUS == 10
DESPAWN_RADIUS == 8000
XP_PER_SHARD == 50
WORLD_EXTENT == 60000
CHUNK_SIZE == 2000
TOTAL_CHUNKS_SIDE == (WORLD_EXTENT * 2) \div CHUNK_SIZE
INSTANCES_PER_CHUNK == 5000
LOW_DETAIL_DISTANCE == 2000

\* fixed-point unit of positions and velocities: 1/Scale world unit
Scale == 100

\* ---------------------------------------------------------------- numbers
Abs(a) == IF a < 0 THEN -a ELSE a

\* division truncating toward zero (the sign of the dividend is kept)
TruncDiv(a, b) == IF a < 0 THEN -((-a) \div b) ELSE a \div b

\* a*a + b*b for a, b in 1/Scale units, as <<hi, lo>> with
\* a*a + b*b = hi * Scale^2 + lo, 0 <= lo < Scale^2 (hi in whole units^2)
SumSq(a, b) ==
    LET a1 == Abs(a) \div Scale
        a0 == Abs(a) % Scale
        b1 == Abs(b) \div Scale
        b0 == Abs(b) % Scale
        H  == a1 * a1 + b1 * b1
        L  == 2 * Scale * (a1 * a0 + b1 * b0) + a0 * a0 + b0 * b0
    IN  << H + (L \div (Scale * Scale)), L % (Scale * Scale) >>

\* Math.sqrt(dx*dx + dz*dz) > r     (dx, dz in 1/Scale units, r in units)
DistGT(dx, dz, r) ==
    LET s == SumSq(dx, dz)
    IN  s[1] > r * r \/ (s[1] = r * r /\ s[2] > 0)

\* Math.sqrt(dx*dx + dz*dz) < r
DistLT(dx, dz, r) == SumSq(dx, dz)[1] < r * r

\* Math.sin of an angle in 1/100 radian, result in 1/1000
\* (Bhaskara's rational approximation on each half period; pi = 3.14)
Sin(c) ==
    LET a == c % 628
        x == IF a < 314 THEN a ELSE a - 314
        p == x * (314 - x)
        v == (16 * p * 1000) \div (5 * 314 * 314 - 4 * p)
    IN  IF a < 314 THEN v ELSE -v

\* Math.cos of an angle in 1/100 radian, result in 1/1000
Cos(c) == Sin(c + 157)

\* (variant of Lerp05: the step is 1.05 of the difference)
LerpOvershooting(a, b) == a + TruncDiv((b - a) * 105, 100)

\* a + (b - a) * 0.05   (THREE lerp with alpha 0.05, and "+= (t - c) * 0.05")
Lerp05(a, b) == a + TruncDiv((b - a) * 5, 100)

\* a + (b - a) * 0.02
Lerp02(a, b) == a + TruncDiv((b - a) * 2, 100)

\* ------------------------------------------------------------------ state
VARIABLES
    \* App
    status,          \* AppStatus
    gameKey,         \* key of the VisualizerCanvas element
    xp,
    systemState,     \* systemStateRef.current
    startPending,    \* a handleStart call is awaiting its initialisations
    error,           \* the message of the error screen
    cameraStarted,   \* the tracking camera has been started (cameraRef set)
    pausePending,    \* a togglePause call is awaiting suspend / resume
    \* browser
    scheduled,       \* pending requestAnimationFrame requests [id, inst]
    nextId,          \* next request id
    \* VisualizerCanvas instance (the one the page shows)
    inst,            \* the key it was mounted with
    cleanupLog,      \* what the cleanup of the previous instance did, in order
    frameIdRef,
    timeRef,         \* in 1/100
    isPausedRef,
    playerPosition,  \* [x, z] in 1/Scale (y is never written)
    playerVelocity,  \* [x, y] in 1/Scale
    shards,          \* shardsRef.current
    camera,          \* cameraRef.current.position
    lods,            \* lodsRef.current, the chunks that are followed
    instanceMatrix,  \* the instance matrices of the chunks that are followed
    grid,            \* the grid sizing the canvas was built with, and how
                     \* the chunk generation ended
    companion,       \* companionGroupRef.current.position
    env,             \* the smoothed environment values
    activeCompanionRef,
    activeSkinRef,
    playerGroup,     \* playerRef.current.children
    companionGroup,  \* companionGroupRef.current.children
    gpu,             \* the GPU resources the instance has created, in order
    \* App, the store
    storeItems,
    rendered,        \* the xp and the items of the render whose handlers
                     \* the page holds
    \* history
    pickups,         \* onCollectShard calls made so far
    spent,           \* the costs handlePurchase has deducted so far
    delivered,       \* tracker results, audio samples and shop requests
                     \* taken so far
    \* history
    cleanedGpu,      \* the GPU resources of the instance that was cleaned up
    frames,          \* animation-frame callbacks run so far
    lastTick,        \* what the last callback of the mounted instance did
    gameOverCalls,   \* onGameOver calls made by the mounted instance
    tickAfterCleanup \* a callback ran for an instance after its cleanup

vars == << status, gameKey, xp, systemState, startPending, cameraStarted,
           pausePending,
           scheduled, nextId, inst, cleanupLog, frameIdRef, timeRef,
           isPausedRef, playerPosition, playerVelocity, shards, camera,
           lods, instanceMatrix, grid, companion, env, activeCompanionRef, frames, lastTick, gameOverCalls,
           tickAfterCleanup, activeSkinRef, playerGroup, companionGroup, gpu,
           storeItems, cleanedGpu, error, pickups, spent, rendered,
           delivered >>

\* the cosmetic subtrees and the resources of the scene
assetVars == << activeSkinRef, playerGroup, companionGroup, gpu, cleanedGpu,
                instanceMatrix, grid >>

\* the cosmetic subtrees, the resources and the store
sceneVars == << activeSkinRef, playerGroup, companionGroup, gpu, storeItems,
                cleanedGpu, instanceMatrix, grid, spent, rendered,
                delivered >>

\* ------------------------------------------------------------ environment
\* a THREE.Color given by its hex channels, each channel in 1/100 of a step
RGB(r, g, b) == << r * 100, g * 100, b * 100 >>

LerpColor(c, t) == [k \in 1..3 |-> Lerp05(c[k], t[k])]

\* the fields of the target tuple
TargetFields ==
    { "base", "tip", "sun", "weatherColor", "weatherSpeed", "weatherSway",
      "weatherSize", "haloOpacity", "haloColor" }

\* the values the targets are declared with (numbers in 1/1000)
TargetDefaults ==
    [ base |-> RGB(10, 58, 10), tip |-> RGB(136, 204, 68),
      sun |-> RGB(255, 170, 51), weatherColor |-> RGB(255, 255, 255),
      weatherSpeed |-> 10000, weatherSway |-> 1000, weatherSize |-> 3000,
      haloOpacity |-> 0, haloColor |-> RGB(255, 170, 51) ]

\* (variant of EmotionBranch: the SAD branch does not set the weather sway
\* and the halo colour)
EmotionBranchPartial(emotion) ==
    IF emotion = "CALM" THEN
        [ base |-> RGB(26, 42, 10), tip |-> RGB(230, 194, 41),
          sun |-> RGB(255, 170, 51), weatherColor |-> RGB(230, 194, 41),
          weatherSpeed |-> 6000, weatherSway |-> 2000, weatherSize |-> 5000,
          haloOpacity |-> 400, haloColor |-> RGB(255, 170, 0) ]
    ELSE IF emotion = "HAPPY" THEN
        [ base |-> RGB(26, 32, 16), tip |-> RGB(212, 222, 141),
          sun |-> RGB(255, 255, 221), weatherColor |-> RGB(255, 255, 204),
          weatherSpeed |-> 8000, weatherSway |-> 1500, weatherSize |-> 4000,
          haloOpacity |-> 600, haloColor |-> RGB(255, 254, 224) ]
    ELSE IF emotion = "SAD" THEN
        [ base |-> RGB(34, 51, 68), tip |-> RGB(187, 221, 255),
          sun |-> RGB(255, 238, 204), weatherColor |-> RGB(255, 255, 255),
          weatherSpeed |-> 20000, weatherSize |-> 2500,
          haloOpacity |-> 500 ]
    ELSE [f \in {} |-> 0]

\* the assignments of the branch the emotion selects (none when no branch
\* matches)
EmotionBranch(emotion) ==
    IF emotion = "CALM" THEN
        [ base |-> RGB(26, 42, 10), tip |-> RGB(230, 194, 41),
          sun |-> RGB(255, 170, 51), weatherColor |-> RGB(230, 194, 41),
          weatherSpeed |-> 6000, weatherSway |-> 2000, weatherSize |-> 5000,
          haloOpacity |-> 400, haloColor |-> RGB(255, 170, 0) ]
    ELSE IF emotion = "HAPPY" THEN
        [ base |-> RGB(26, 32, 16), tip |-> RGB(212, 222, 141),
          sun |-> RGB(255, 255, 221), weatherColor |-> RGB(255, 255, 204),
          weatherSpeed |-> 8000, weatherSway |-> 1500, weatherSize |-> 4000,
          haloOpacity |-> 600, haloColor |-> RGB(255, 254, 224) ]
    ELSE IF emotion = "SAD" THEN
        [ base |-> RGB(34, 51, 68), tip |-> RGB(187, 221, 255),
          sun |-> RGB(255, 238, 204), weatherColor |-> RGB(255, 255, 255),
          weatherSpeed |-> 20000, weatherSway |-> 800, weatherSize |-> 2500,
          haloOpacity |-> 500, haloColor |-> RGB(255, 221, 136) ]
    ELSE [f \in {} |-> 0]

\* the target tuple of a tick: the declared values, overwritten by the
\* assignments of the branch
Targets(emotion) ==
    [f \in TargetFields |->
        IF f \in DOMAIN EmotionBranch(emotion)
        THEN EmotionBranch(emotion)[f] ELSE TargetDefaults[f]]

\* the smoothed values as the scene is constructed
InitialEnv ==
    [ base |-> RGB(10, 58, 10), tip |-> RGB(176, 214, 107),
      sun |-> RGB(255, 170, 51), weatherColor |-> RGB(255, 255, 255),
      weatherSpeed |-> 10000, weatherSway |-> 1000, weatherSize |-> 4000,
      haloOpacity |-> 0, haloColor |-> RGB(255, 170, 51) ]

\* one tick of exponential smoothing toward the targets of the emotion
Blend(e, emotion) ==
    LET t == Targets(emotion)
    IN  [ base |-> LerpColor(e.base, t.base),
          tip |-> LerpColor(e.tip, t.tip),
          sun |-> LerpColor(e.sun, t.sun),
          weatherColor |-> LerpColor(e.weatherColor, t.weatherColor),
          weatherSpeed |-> Lerp05(e.weatherSpeed, t.weatherSpeed),
          weatherSway |-> Lerp05(e.weatherSway, t.weatherSway),
          weatherSize |-> Lerp05(e.weatherSize, t.weatherSize),
          haloColor |-> LerpColor(e.haloColor, t.haloColor),
          haloOpacity |-> Lerp02(e.haloOpacity, t.haloOpacity) ]

\* ------------------------------------------------------------- kinematics
\* hand signals are in 1/1000
NEUTRAL_SIZE == 120
SIZE_DEADZONE == 20

\* (variant of Turn: the gain is 3.0)
TurnStrong(joyX) == TruncDiv(joyX * 30 * Scale, 10000)

\* turn = joyX * 2.5, in 1/Scale
Turn(joyX) == TruncDiv(joyX * 25 * Scale, 10000)

\* speedZ: 0 inside the deadzone, -(sizeDiff * 25.0) outside, in 1/Scale
SpeedZ(handSize) ==
    LET sizeDiff == handSize - NEUTRAL_SIZE
    IN  IF Abs(sizeDiff) > SIZE_DEADZONE
        THEN TruncDiv(-(sizeDiff * 25 * Scale), 1000)
        ELSE 0

\* the movement logic: the low-pass filtered velocity and the new position
Moved(pos, vel, sig) ==
    LET vx == TruncDiv(vel.x * 9 + Turn(sig.handPosition.x), 10)
        vy == TruncDiv(vel.y * 9 + SpeedZ(sig.handSize), 10)
    IN  [ pos |-> [x |-> pos.x + TruncDiv(vx * 6, 10),
                   z |-> pos.z + TruncDiv(vy * 6, 10)],
          vel |-> [x |-> vx, y |-> vy] ]

\* (variant of IsOutOfBounds: the boundary itself counts as outside)
IsOutOfBoundsInclusive(pos) == ~DistLT(pos.x, pos.z, GAME_OVER_RADIUS)

\* the game-over check on the position the tick starts with
IsOutOfBounds(pos) == DistGT(pos.x, pos.z, GAME_OVER_RADIUS)

\* (variant of TickPlayer: the movement logic runs before the early return)
TickPlayerNoReturn(pos, vel, sig) == Moved(pos, vel, sig)

\* position and velocity after a tick that is not paused: a tick that finds
\* the player out of bounds returns before the movement logic
TickPlayer(pos, vel, sig) ==
    IF IsOutOfBounds(pos) THEN [pos |-> pos, vel |-> vel]
    ELSE Moved(pos, vel, sig)

\* ------------------------------------------------------------ grass field
\* The two loops of the chunk generation for a world extent and a chunk
\* size: TOTAL_CHUNKS_SIDE = (extent * 2) / size and halfGrid = that / 2 are
\* floating-point quotients and nothing checks them. Each loop runs x from
\* -halfGrid in steps of 1 while x < halfGrid: for size 0 the quotient is
\* Infinity, x stays -Infinity and the loop does not end; for a negative
\* size halfGrid is negative and the loop body never runs; otherwise the
\* body runs ceil((extent * 2) / size) times. No path throws.
GridSetup(extent, size) ==
    LET side == IF size <= 0 THEN 0
                ELSE (extent * 2 + size - 1) \div size
    IN  [ worldExtent |-> extent, chunkSize |-> size,
          outcome |-> IF size = 0 THEN "hangs" ELSE "built",
          chunks |-> side * side ]

\* the index pairs (x, z) the two loops of the chunk generation run through
ChunkIndices ==
    LET halfGrid == TOTAL_CHUNKS_SIDE \div 2
    IN  (-halfGrid .. halfGrid - 1) \X (-halfGrid .. halfGrid - 1)

\* (variant of ChunkCenter: the chunk is placed on its lower corner)
ChunkCorner(ix) == << ix[1] * CHUNK_SIZE, 0, ix[2] * CHUNK_SIZE >>

\* lod.position: (x * CHUNK_SIZE + CHUNK_SIZE / 2, 0, z * CHUNK_SIZE +
\* CHUNK_SIZE / 2), in world units
ChunkCenter(ix) ==
    << ix[1] * CHUNK_SIZE + CHUNK_SIZE \div 2, 0,
       ix[2] * CHUNK_SIZE + CHUNK_SIZE \div 2 >>

\* a THREE.LOD as the chunk generation leaves it: the position set, the
\* world matrix still the identity (its translation the origin), the two
\* instanced meshes added as levels at the distances 0 and 2000, visible
\* as every new object is
NewLod(ix) ==
    [ position |-> ChunkCenter(ix),
      matrixWorld |-> << 0, 0, 0 >>,
      autoUpdate |-> FALSE,
      levels |-> << [ object |-> "meshHigh", count |-> INSTANCES_PER_CHUNK,
                      distance |-> 0, hysteresis |-> 0, visible |-> TRUE ],
                    [ object |-> "meshLow", count |-> INSTANCES_PER_CHUNK,
                      distance |-> LOW_DETAIL_DISTANCE, hysteresis |-> 0,
                      visible |-> TRUE ] >> ]

\* the chunks the generation creates, those of the index pairs in W followed
GenerateLods(W) == [ix \in W \cap ChunkIndices |-> NewLod(ix)]

\* the distance from a (in 1/Scale) to p (in world units) is below r (world
\* units)
DistBelow(a, p, r) ==
    LET d(k) == Abs(a[k] - p[k] * Scale)
        hi(k) == d(k) \div Scale
        lo(k) == d(k) % Scale
        H == hi(1) * hi(1) + hi(2) * hi(2) + hi(3) * hi(3)
        L == 2 * Scale * (hi(1) * lo(1) + hi(2) * lo(2) + hi(3) * lo(3))
             + lo(1) * lo(1) + lo(2) * lo(2) + lo(3) * lo(3)
    IN  /\ \A k \in 1..3 : d(k) < r * Scale
        /\ H + (L \div (Scale * Scale)) < r * r

\* LOD.update(camera) for a LOD of two levels: the distance is taken between
\* the translations of the camera's and of the LOD's world matrix (the
\* camera's is current, lookAt having just updated it); level 0 is shown,
\* and replaced by level 1 when the distance has reached the distance of
\* level 1, lowered by its hysteresis share if level 1 is showing
LodUpdate(lod, cam) ==
    LET lv == lod.levels
        levelDistance ==
            IF lv[2].visible
            THEN lv[2].distance - lv[2].distance * lv[2].hysteresis
            ELSE lv[2].distance
        far == ~DistBelow(cam, lod.matrixWorld, levelDistance)
    IN  [lod EXCEPT !.levels[1].visible = ~far, !.levels[2].visible = far]

\* lodsRef.current.forEach(lod => lod.update(camera))
LodsUpdate(ls, cam) == [ix \in DOMAIN ls |-> LodUpdate(ls[ix], cam)]

\* lod.updateMatrixWorld(): the chunks are children of the scene, so the
\* translation of the world matrix is the position
UpdateMatrixWorld(lod) == [lod EXCEPT !.matrixWorld = lod.position]

\* renderer.render(scene, camera): the scene updates the world matrices of
\* its objects from their positions
RenderScene(ls) == [ix \in DOMAIN ls |-> UpdateMatrixWorld(ls[ix])]

\* the outcomes of the Math.random() draws of a chunk generation that are
\* told apart
FieldSeeds == {0, 1}

\* the Math.random() draws of the chunk generation, in 1/1000: draw n of the
\* generation with the given seed
RandomDraw(seed, n) == (n * 617 + seed * 389) % 1000

\* dummy.matrix after updateMatrix(): the position ((r1 - 0.5) * CHUNK_SIZE,
\* 0, (r2 - 0.5) * CHUNK_SIZE) in 1/Scale, the rotation r3 * PI about y in
\* 1/100 radian, the uniform scale 0.8 + r4 * 0.7 in 1/1000
DummyMatrix(r1, r2, r3, r4) ==
    [ px |-> TruncDiv((r1 - 500) * CHUNK_SIZE * Scale, 1000),
      pz |-> TruncDiv((r2 - 500) * CHUNK_SIZE * Scale, 1000),
      rotY |-> TruncDiv(r3 * 314, 1000),
      scale |-> 800 + TruncDiv(r4 * 700, 1000) ]

\* the instance loop of one chunk, its draws starting after draw number
\* first: every instance takes four draws, and its matrix is set in both
\* meshes
ChunkInstances(first, seed) ==
    LET m(j) == DummyMatrix(RandomDraw(seed, first + 4 * j),
                            RandomDraw(seed, first + 4 * j + 1),
                            RandomDraw(seed, first + 4 * j + 2),
                            RandomDraw(seed, first + 4 * j + 3))
    IN  [ meshHigh |-> [j \in 1..INSTANCES_PER_CHUNK |-> m(j)],
          meshLow |-> [j \in 1..INSTANCES_PER_CHUNK |-> m(j)] ]

\* the instance matrices of the chunks of the index pairs in W
GenerateInstances(W, seed) ==
    [ix \in W \cap ChunkIndices |->
        ChunkInstances((((ix[1] + TOTAL_CHUNKS_SIDE) * TOTAL_CHUNKS_SIDE
                           + ix[2] + TOTAL_CHUNKS_SIDE) * 7) % 1000,
                       seed)]

\* bobHeight = 6 + sin(time * 1.5) * 1.0, in 1/Scale
BobHeight(t) == 6 * Scale + TruncDiv(Sin((t * 15) \div 10) * Scale, 1000)

\* camera.position.lerp((x, 30, z + 60), 0.05)
CameraFollow(cam, pos) ==
    << Lerp05(cam[1], pos.x), Lerp05(cam[2], 30 * Scale),
       Lerp05(cam[3], pos.z + 60 * Scale) >>

\* the hover offset of the companion variant at time t, in 1/Scale
Hover(type, t) ==
    LET amp(s, a) == TruncDiv(s * a * Scale, 1000)
    IN  IF type = "comp_firefly" THEN
            << amp(Sin(t * 5), 8), amp(Cos(t * 4), 4) + 8 * Scale,
               amp(Cos(t * 6), 8) >>
        ELSE IF type = "comp_spirit" THEN
            << amp(Sin((t * 5) \div 10), 6),
               amp(Cos((t * 8) \div 10), 2) + 6 * Scale,
               amp(Cos((t * 4) \div 10), 6) >>
        ELSE
            << amp(Sin((t * 12) \div 10), 5),
               amp(Cos((t * 23) \div 10), 3) + 5 * Scale,
               amp(Cos((t * 8) \div 10), 5) >>

\* bf.position.lerp(player + hover + (8, bob, 0), 0.05)
CompanionFollow(c, type, pos, t) ==
    LET h == Hover(type, t)
    IN  << Lerp05(c[1], pos.x + h[1] + 8 * Scale),
           Lerp05(c[2], BobHeight(t) + h[2]),
           Lerp05(c[3], pos.z + h[3]) >>

\* ----------------------------------------------------------------- shards
\* values of (Math.random() - 0.5), in 1/1000, drawn for the x and the z of
\* a relocation
RandPairs == { << -500, 499 >>, << 3, -3 >> }

\* shard.position.set(player.x + r * span, 5, player.z + r * span)
Relocate(s, pp, r, span) ==
    [s EXCEPT !.x = pp.x + TruncDiv(r[1] * span * Scale, 1000),
              !.y = 5 * Scale,
              !.z = pp.z + TruncDiv(r[2] * span * Scale, 1000)]

\* (variant of Collect: the band of the despawn branch is used)
CollectWide(s, pp, r) ==
    [Relocate(s, pp, r, 4000) EXCEPT !.visible = TRUE]

\* (variant of Collect: the shard is not shown again)
CollectHidden(s, pp, r) ==
    Relocate([s EXCEPT !.visible = FALSE], pp, r, 2000)

\* the pickup branch: hidden, teleported into the band of 2000, shown again
Collect(s, pp, r) ==
    LET hidden == [s EXCEPT !.visible = FALSE]
        moved  == Relocate(hidden, pp, r, 2000)
    IN  [moved EXCEPT !.visible = TRUE]

\* (variant of Despawn: a band of 20000)
DespawnFar(s, pp, r) == Relocate(s, pp, r, 20000)

\* the despawn branch: teleported into the band of 4000
Despawn(s, pp, r) == Relocate(s, pp, r, 4000)

\* the shard is within the collect radius of the player
InCollectRange(s, pp) == DistLT(s.x - pp.x, s.z - pp.z, COLLECT_RADIUS)

\* the shard is beyond the despawn radius of the player
BeyondDespawn(s, pp) == DistGT(s.x - pp.x, s.z - pp.z, DESPAWN_RADIUS)

\* the loop body for the shard at index i (1-based; the code's index is
\* i - 1): spin, bob, then pickup or despawn; calls = onCollectShard calls
ShardStep(s, i, pp, t, r) ==
    LET spun == [s EXCEPT !.rotY = @ + 2, !.rotX = @ + 1,
                          !.y = 5 * Scale
                                + TruncDiv(Sin(t * 2 + (i - 1) * 100)
                                           * 15 * Scale, 10000)]
    IN  IF InCollectRange(spun, pp)
        THEN [shard |-> Collect(spun, pp, r), calls |-> 1]
        ELSE IF BeyondDespawn(spun, pp)
        THEN [shard |-> Despawn(spun, pp, r), calls |-> 0]
        ELSE [shard |-> spun, calls |-> 0]

\* the shards that take a random draw in a tick with the player at pp
NeedsDraw(sh, pp) ==
    {i \in 1..Len(sh) : InCollectRange(sh[i], pp) \/ BeyondDespawn(sh[i], pp)}

\* the indices of S in descending order, each repeated calls[i] times
RECURSIVE CallSeq(_, _)
CallSeq(S, calls) ==
    IF S = {} THEN << >>
    ELSE LET m == CHOOSE i \in S : \A j \in S : j <= i
         IN  [k \in 1..calls[m] |-> m] \o CallSeq(S \ {m}, calls)

\* the loop "for (i = length - 1; i >= 0; i--)": every shard takes one step
\* (a step reads and writes its own shard only); collected lists the indices
\* onCollectShard was called for, in the order of the calls
ShardLoop(sh, pp, t, rnd) ==
    LET step == [i \in 1..Len(sh) |->
                    ShardStep(sh[i], i, pp, t,
                              IF i \in DOMAIN rnd THEN rnd[i] ELSE << 0, 0 >>)]
                \o << >>
        hit  == {i \in 1..Len(sh) : step[i].calls > 0}
    IN  [ shards |-> [i \in 1..Len(sh) |-> step[i].shard],
          collected |-> CallSeq(hit, [i \in hit |-> step[i].calls]) ]

\* ---------------------------------------------------------------- animate
\* (variant of SkipsFrame: the pause flag is not looked at)
SkipsFrameNever(paused) == FALSE

\* "if (isPausedRef.current) return"
SkipsFrame(paused) == paused

\* one call of animate on the canvas state c with the signals sig, the
\* request id returned by requestAnimationFrame and the random draws rnd.
\* kind: "paused", "gameOver" (onGameOver was called) or "full"
Animate(c, sig, type, id, rnd) ==
    LET t  == c.timeRef + 1
        pv == TickPlayer(c.pos, c.vel, sig)
        sl == ShardLoop(c.shards, pv.pos, t, rnd)
    IN  IF SkipsFrame(c.isPausedRef)
        THEN [c |-> [c EXCEPT !.frameIdRef = id],
              kind |-> "paused", collected |-> << >>]
        ELSE IF IsOutOfBounds(c.pos)
        THEN [c |-> [c EXCEPT !.frameIdRef = id, !.timeRef = t,
                              !.pos = pv.pos, !.vel = pv.vel],
              kind |-> "gameOver", collected |-> << >>]
        ELSE [c |-> [c EXCEPT !.frameIdRef = id, !.timeRef = t,
                              !.pos = pv.pos, !.vel = pv.vel,
                              !.camera = CameraFollow(c.camera, pv.pos),
                              !.lods =
                                  RenderScene(
                                      LodsUpdate(c.lods,
                                                 CameraFollow(c.camera,
                                                              pv.pos))),
                              !.companion =
                                  CompanionFollow(c.companion, type, pv.pos, t),
                              !.shards = sl.shards,
                              !.env = Blend(c.env, sig.emotion)],
              kind |-> "full", collected |-> sl.collected]

\* the shards that take a random draw when animate runs on c
Draws(c, sig) ==
    IF SkipsFrame(c.isPausedRef) \/ IsOutOfBounds(c.pos) THEN {}
    ELSE NeedsDraw(c.shards, TickPlayer(c.pos, c.vel, sig).pos)

\* the state of the mounted canvas as one record
Canvas ==
    [ frameIdRef |-> frameIdRef, timeRef |-> timeRef,
      isPausedRef |-> isPausedRef, pos |-> playerPosition,
      vel |-> playerVelocity, shards |-> shards, camera |-> camera,
      lods |-> lods,
      companion |-> companion, env |-> env ]

SetCanvas(c) ==
    /\ frameIdRef' = c.frameIdRef
    /\ timeRef' = c.timeRef
    /\ isPausedRef' = c.isPausedRef
    /\ playerPosition' = c.pos
    /\ playerVelocity' = c.vel
    /\ shards' = c.shards
    /\ camera' = c.camera
    /\ lods' = c.lods
    /\ companion' = c.companion
    /\ env' = c.env

\* the refs and scene objects as the component and its effect create them
Fresh(paused, sh) ==
    [ frameIdRef |-> 0, timeRef |-> 0, isPausedRef |-> paused,
      pos |-> [x |-> 0, z |-> 0], vel |-> [x |-> 0, y |-> 0],
      shards |-> sh, camera |-> << 0, 0, 0 >>, companion |-> << 0, 0, 0 >>,
      env |-> InitialEnv, lods |-> GenerateLods({}) ]

\* the shards as the effect spawns them: x, z in [-3000, 3000), y in [5, 10),
\* for one outcome of the Math.random() draws: the last shard within the
\* collect radius of the origin, shard 2 at (1, 20), the others on a grid
\* that stays 50 units away from the axes
SpawnShards ==
    [i \in 1..ShardCount |->
        [ x |-> IF i = ShardCount THEN 3 * Scale
                ELSE IF i = 2 THEN 1 * Scale
                ELSE ((((i * 37) % 28) - 14) * 100 + 50) * Scale,
          y |-> (5 + ((i * 7) % 5)) * Scale,
          z |-> IF i = ShardCount THEN 4 * Scale
                ELSE IF i = 2 THEN 20 * Scale
                ELSE ((((i * 53) % 28) - 14) * 100 + 50) * Scale,
          rotX |-> 0, rotY |-> 0, visible |-> TRUE ]]

\* The canvas after a walk to the boundary: the state that 5765 calls of
\* animate produce from Fresh(FALSE, SpawnShards) when the hand signal is the
\* initial one for the first 201 calls, then handPosition.x = 0.5, then 0.4,
\* then 1.0 (handSize 0.13 in all three), and every random draw is 0.25.
WalkedShardX ==
    << 846720, 100, 135000, 844704, 35000, 125000, 832464, 25000, 115000,
       815184, 15000, 105000, 814320, 5000, 95000, 803232, 890496, 85000,
       783648, 878112, 75000, 783792, 874944, 65000, 773856, 861552, 55000,
       753552, 846720, 45000, 135000, 844704, 35000, 125000, 832464, 25000,
       115000, 815184, 15000, 105000, 814320, 5000, 95000, 803232, 890496,
       85000, 783648, 878112, 75000, 783792, 874944, 65000, 773856, 861552,
       55000, 753552, 846720, 45000, 135000, 844704, 35000, 125000, 832464,
       25000, 115000, 815184, 15000, 105000, 814320, 5000, 95000, 803232,
       890496, 85000, 783648, 878112, 75000, 783792, 874944, 65000, 773856,
       861552, 55000, 753552, 846720, 45000, 135000, 844704, 35000, 125000,
       832464, 25000, 115000, 815184, 15000, 105000, 814320, 5000, 95000,
       803232, 890496, 85000, 783648, 878112, 75000, 783792, 874944, 65000,
       773856, 861552, 55000, 753552, 846720, 45000, 135000, 844704, 35000,
       125000, 832464, 25000, 115000, 815184, 15000, 105000, 814320, 5000,
       95000, 803232, 890496, 85000, 783648, 878112, 75000, 783792, 874944,
       65000, 773856, 861552, 55000, 753552, 846720, 45000, 135000, 844704,
       35000, 125000, 832464, 25000, 115000, 50000 >>
WalkedShardY ==
    << 615, 482, 366, 373, 497, 624, 637, 524, 389, 356, 456, 596, 648, 563,
       421, 351, 418, 561, 648, 598, 459, 357, 387, 521, 636, 626, 500, 374,
       364, 479, 613, 643, 541, 402, 352, 439, 582, 649, 579, 437, 352, 404,
       544, 644, 611, 476, 363, 376, 503, 627, 634, 518, 385, 358, 462, 600,
       647, 558, 416, 351, 423, 566, 648, 594, 453, 355, 391, 527, 638, 622,
       494, 371, 367, 485, 617, 641, 535, 397, 353, 445, 587, 649, 574, 431,
       351, 409, 550, 645, 607, 470, 361, 380, 509, 630, 632, 512, 381, 360,
       468, 605, 646, 552, 411, 351, 429, 571, 649, 589, 448, 354, 395, 532,
       640, 619, 488, 368, 370, 491, 620, 639, 530, 393, 355, 450, 591, 649,
       569, 426, 351, 413, 555, 647, 603, 465, 359, 383, 515, 633, 629, 506,
       378, 362, 473, 609, 645, 547, 406, 352, 434, 577 >>
WalkedShardZ ==
    << 100000, 2000, 55000, 100000, -5000, -35000, 100000, -95000, -125000,
       100000, 95000, 65000, 100000, 5000, -25000, 100000, 100000, -115000,
       100000, 100000, 75000, 100000, 100000, -15000, 100000, 100000, -105000,
       100000, 100000, 85000, 55000, 100000, -5000, -35000, 100000, -95000,
       -125000, 100000, 95000, 65000, 100000, 5000, -25000, 100000, 100000,
       -115000, 100000, 100000, 75000, 100000, 100000, -15000, 100000, 100000,
       -105000, 100000, 100000, 85000, 55000, 100000, -5000, -35000, 100000,
       -95000, -125000, 100000, 95000, 65000, 100000, 5000, -25000, 100000,
       100000, -115000, 100000, 100000, 75000, 100000, 100000, -15000, 100000,
       100000, -105000, 100000, 100000, 85000, 55000, 100000, -5000, -35000,
       100000, -95000, -125000, 100000, 95000, 65000, 100000, 5000, -25000,
       100000, 100000, -115000, 100000, 100000, 75000, 100000, 100000, -15000,
       100000, 100000, -105000, 100000, 100000, 85000, 55000, 100000, -5000,
       -35000, 100000, -95000, -125000, 100000, 95000, 65000, 100000, 5000,
       -25000, 100000, 100000, -115000, 100000, 100000, 75000, 100000, 100000,
       -15000, 100000, 100000, -105000, 100000, 100000, 85000, 55000, 100000,
       -5000, -35000, 100000, -95000, -125000, 50000 >>

Walked ==
    [ frameIdRef |-> 5765, timeRef |-> 5765, isPausedRef |-> FALSE,
      pos |-> [x |-> 799856, z |-> 0], vel |-> [x |-> 241, y |-> 0],
      shards |-> [i \in 1..ShardCount |->
                    [ x |-> WalkedShardX[i], y |-> WalkedShardY[i],
                      z |-> WalkedShardZ[i], rotX |-> 5765, rotY |-> 11530,
                      visible |-> TRUE ]],
      camera |-> << 797120, 2981, 5981 >>, companion |-> << 797852, 1266, -201 >>,
      lods |-> GenerateLods({}),
      env |-> [ base |-> << 2581, 4219, 1000 >>, tip |-> << 22981, 19419, 4119 >>,
                sun |-> << 25500, 17000, 5100 >>, weatherColor |-> << 23019, 19419, 4119 >>,
                weatherSpeed |-> 6019, weatherSway |-> 1981, weatherSize |-> 4981,
                haloOpacity |-> 351, haloColor |-> << 25500, 17000, 19 >> ] ]

\* ------------------------------------------------------------------ store
\* INITIAL_STORE_ITEMS, in the order of the array
INITIAL_STORE_ITEMS ==
    << [id |-> "skin_default", type |-> "skin", cost |-> 0,
        unlocked |-> TRUE, active |-> TRUE],
       [id |-> "skin_cube", type |-> "skin", cost |-> 50,
        unlocked |-> FALSE, active |-> FALSE],
       [id |-> "skin_tetra", type |-> "skin", cost |-> 120,
        unlocked |-> FALSE, active |-> FALSE],
       [id |-> "comp_butterfly", type |-> "companion", cost |-> 0,
        unlocked |-> TRUE, active |-> TRUE],
       [id |-> "comp_firefly", type |-> "companion", cost |-> 80,
        unlocked |-> FALSE, active |-> FALSE],
       [id |-> "comp_spirit", type |-> "companion", cost |-> 200,
        unlocked |-> FALSE, active |-> FALSE] >>

\* storeItems.find(i => i.type === type && i.active)?.id || fallback
ActiveOf(items, type, fallback) ==
    LET hits == {k \in 1..Len(items) : items[k].type = type /\ items[k].active}
    IN  IF hits = {} THEN fallback
        ELSE items[CHOOSE k \in hits : \A j \in hits : k <= j].id

ActiveSkin(items) == ActiveOf(items, "skin", "skin_default")

ActiveCompanion(items) == ActiveOf(items, "companion", "comp_butterfly")

\* (variant of HandleEquip: without the return for a locked item)
HandleEquipUnchecked(items, item) ==
    [k \in 1..Len(items) |->
        IF items[k].type = item.type
        THEN [items[k] EXCEPT !.active = (items[k].id = item.id)]
        ELSE items[k]]

\* handleEquip(item): within the type of the item, only the item is active
HandleEquip(items, item) ==
    IF ~item.unlocked THEN items
    ELSE [k \in 1..Len(items) |->
            IF items[k].type = item.type
            THEN [items[k] EXCEPT !.active = (items[k].id = item.id)]
            ELSE items[k]]

\* handlePurchase(item) with the xp of the render the handler belongs to
HandlePurchase(x, items, item) ==
    IF x >= item.cost /\ ~item.unlocked
    THEN [ xp |-> x - item.cost,
           storeItems |-> [k \in 1..Len(items) |->
                             IF items[k].id = item.id
                             THEN [items[k] EXCEPT !.unlocked = TRUE]
                             ELSE items[k]] ]
    ELSE [ xp |-> x, storeItems |-> items ]

\* the store after every item has been purchased, in the order of the array
StockedStore ==
    LET RECURSIVE buy(_, _)
        buy(st, k) ==
            IF k > Len(st.storeItems) THEN st
            ELSE buy(HandlePurchase(st.xp, st.storeItems, st.storeItems[k]),
                     k + 1)
    IN  buy([xp |-> 450, storeItems |-> INITIAL_STORE_ITEMS], 1).storeItems

\* the costs of the unlocked items of the store
SpentOn(items) ==
    LET RECURSIVE sum(_)
        sum(k) == IF k > Len(items) THEN 0
                  ELSE (IF items[k].unlocked THEN items[k].cost ELSE 0)
                       + sum(k + 1)
    IN  sum(1)

\* ------------------------------------------------------------------ scene
\* a GPU resource: the variable that holds it, its kind, and the cosmetic
\* variant it was built for ("" for the resources of the scene itself)
Res(var, kind, of) == [var |-> var, kind |-> kind, of |-> of]

\* a child of a group; geometry and material are positions in gpu (0: none)
Child(type, of, geometry, material) ==
    [type |-> type, of |-> of, geometry |-> geometry, material |-> material]

\* the sequence q without its k-th element
RemoveAt(q, k) == [j \in 1..(Len(q) - 1) |-> IF j < k THEN q[j] ELSE q[j + 1]]

\* updatePlayerMesh on the children of the player group, n resources having
\* been created so far: the first Mesh child is removed, a geometry and a
\* material are created for the skin and a Mesh of them is added
UpdatePlayerMesh(group, skin, n) ==
    LET meshes == {k \in 1..Len(group) : group[k].type = "Mesh"}
        rest   == IF meshes = {} THEN group
                  ELSE RemoveAt(group, CHOOSE k \in meshes :
                                          \A j \in meshes : k <= j)
    IN  [ children |-> Append(rest, Child("Mesh", skin, n + 1, n + 2)),
          created  |-> << Res("updatePlayerMesh.geometry", "geometry", skin),
                          Res("updatePlayerMesh.material", "material", skin) >> ]

\* the parts updateCompanionMesh builds for a variant: a mesh and a light
\* for firefly and spirit, two wings (sharing wingGeo and wingMat) and a
\* light otherwise
CompanionParts(type, n) ==
    IF type \in {"comp_firefly", "comp_spirit"}
    THEN [ children |-> << Child("Mesh", type, n + 1, n + 2),
                           Child("PointLight", type, 0, 0) >>,
           created  |-> << Res("updateCompanionMesh.geometry", "geometry", type),
                           Res("updateCompanionMesh.material", "material", type) >> ]
    ELSE [ children |-> << Child("Mesh", type, n + 1, n + 2),
                           Child("Mesh", type, n + 1, n + 2),
                           Child("PointLight", type, 0, 0) >>,
           created  |-> << Res("updateCompanionMesh.wingGeo", "geometry", type),
                           Res("updateCompanionMesh.wingMat", "material", type) >> ]

\* while (children.length > 0) remove(children[0])
RemoveChildren(group) == SubSeq(group, Len(group) + 1, Len(group))

\* (variant of UpdateCompanionMesh: the old children are not removed)
UpdateCompanionMeshKeeping(group, type, n) ==
    [ children |-> group \o CompanionParts(type, n).children,
      created  |-> CompanionParts(type, n).created ]

\* updateCompanionMesh: every child is removed, then the parts of the
\* variant are added
UpdateCompanionMesh(group, type, n) ==
    [ children |-> RemoveChildren(group) \o CompanionParts(type, n).children,
      created  |-> CompanionParts(type, n).created ]

\* the scene as the mount effect builds it for the selected cosmetics: the
\* resources in the order of their creation, and the two groups
SceneSetup(skin, comp) ==
    LET head == << Res("renderer", "renderer", ""),
                   Res("sunHaloGeo", "geometry", ""),
                   Res("sunHaloMat", "material", "") >>
        c    == UpdateCompanionMesh(<< >>, comp, Len(head))
        mid  == head \o c.created \o
                << Res("groundGeo", "geometry", ""),
                   Res("groundMat", "material", ""),
                   Res("boundaryGeo", "geometry", ""),
                   Res("boundaryMat", "material", ""),
                   Res("grassGeoHigh", "geometry", ""),
                   Res("grassGeoLow", "geometry", ""),
                   Res("grassMat", "material", ""),
                   Res("weatherGeo", "geometry", ""),
                   Res("weatherMat", "material", "") >>
        p    == UpdatePlayerMesh(<< Child("PointLight", "player", 0, 0) >>,
                                 skin, Len(mid))
    IN  [ gpu |-> mid \o p.created \o
                  << Res("shardGeo", "geometry", ""),
                     Res("shardMat", "material", ""),
                     Res("shardGlowMat", "material", "") >>,
          playerGroup |-> p.children,
          companionGroup |-> c.children ]

\* the effect on [activeSkin, activeCompanion] of a mounted canvas: both
\* subtrees are rebuilt
CosmeticsEffect(pg, cg, g, skin, comp) ==
    LET p == UpdatePlayerMesh(pg, skin, Len(g))
        c == UpdateCompanionMesh(cg, comp, Len(g) + Len(p.created))
    IN  [ gpu |-> g \o p.created \o c.created,
          playerGroup |-> p.children,
          companionGroup |-> c.children ]

\* ------------------------------------------------------------------- App
\* systemStateRef as App creates it (signals in 1/1000)
InitialSystemState ==
    [ emotion |-> "CALM", mouthCurvature |-> 0, soundAmplitude |-> 0,
      handPosition |-> [x |-> 0, y |-> 0], handSize |-> 100, isFist |-> FALSE ]

\* (variant of HandleCollectShard: setXp(xp + 50), every call of a tick
\* adding to the xp of the same render)
HandleCollectShardStale(x, calls) ==
    IF calls = 0 THEN x ELSE x + XP_PER_SHARD

\* handleCollectShard: setXp(prev => prev + 50), once per call
HandleCollectShard(x, calls) == x + XP_PER_SHARD * calls

\* handleGameOver: setStatus(GAME_OVER)
HandleGameOver(st) == "GAME_OVER"

\* the cleanup of the effect, in the order of its statements
CleanupSteps ==
    << [op |-> "removeEventListener", target |-> "resize"],
       [op |-> "cancelAnimationFrame", target |-> "frameIdRef"],
       [op |-> "removeChild", target |-> "domElement"],
       [op |-> "dispose", target |-> "grassGeoHigh"],
       [op |-> "dispose", target |-> "grassGeoLow"],
       [op |-> "dispose", target |-> "grassMat"],
       [op |-> "dispose", target |-> "weatherGeo"],
       [op |-> "dispose", target |-> "weatherMat"],
       [op |-> "dispose", target |-> "groundGeo"],
       [op |-> "dispose", target |-> "groundMat"],
       [op |-> "dispose", target |-> "sunHaloGeo"],
       [op |-> "dispose", target |-> "sunHaloMat"],
       [op |-> "dispose", target |-> "boundaryGeo"],
       [op |-> "dispose", target |-> "boundaryMat"],
       [op |-> "dispose", target |-> "shardGeo"],
       [op |-> "dispose", target |-> "shardMat"] >>

\* cancelAnimationFrame(id): the request with that id is dropped
CancelAnimationFrame(sched, id) == {f \in sched : f.id # id}

\* (variant of Cleanup: the pending request is not cancelled)
CleanupWithoutCancel(sched, fid) == [scheduled |-> sched, log |-> CleanupSteps]

\* the cleanup run on the pending requests: what is left pending, and the log
Cleanup(sched, fid) ==
    [ scheduled |-> IF \E k \in 1..Len(CleanupSteps) :
                          CleanupSteps[k].op = "cancelAnimationFrame"
                    THEN CancelAnimationFrame(sched, fid) ELSE sched,
      log |-> CleanupSteps ]

\* what one call of animate leaves in the history
TickRecord(a, c, viaFrame) ==
    [ kind |-> a.kind, collected |-> a.collected, startPos |-> c.pos,
      startVel |-> c.vel, before |-> c.shards, viaFrame |-> viaFrame ]

\* the hand signal held at the end of the walk
WalkSignal ==
    [InitialSystemState EXCEPT !.handPosition = [x |-> 1000, y |-> 0],
                               !.handSize = 130]

\* The states a behaviour starts in, each the state animate leaves when it
\* is called on the canvas c under the signals sig:
\*   - the page as it has just rendered: App in IDLE, the canvas mounted,
\*     its effect having built the scene and called animate once;
\*   - the game running, the player having walked to the boundary.
FreshScenario ==
    [ c |-> Fresh(FALSE, SpawnShards), sig |-> InitialSystemState,
      status |-> "IDLE", cameraStarted |-> FALSE, xp |-> 0, id |-> 1,
      viaFrame |-> FALSE ]

WalkedScenario ==
    [ c |-> Walked, sig |-> WalkSignal,
      status |-> "RUNNING", cameraStarted |-> TRUE, xp |-> 50, id |-> 5766,
      viaFrame |-> TRUE ]

Scenarios == { FreshScenario, WalkedScenario }

\* no chunk of the grass field is followed
NoChunks ==
    [ lods |-> {}, instances |-> {}, seed |-> 0,
      worldExtent |-> WORLD_EXTENT, chunkSize |-> CHUNK_SIZE ]

\* the chunks of scenario sc for the index pairs in W: as generated when no
\* frame has been rendered, and as the last update and render have left
\* them otherwise
ScenarioLods(sc, W) ==
    IF sc.viaFrame
    THEN RenderScene(LodsUpdate(RenderScene(GenerateLods(W)), sc.c.camera))
    ELSE GenerateLods(W)

\* the state animate leaves in scenario sc, the store holding items and the
\* canvas being the one mounted with key; of the grass field the chunks
\* named by follow are followed
Start(sc, items, key, follow) ==
    /\ status = sc.status
    /\ gameKey = key
    /\ systemState = sc.sig
    /\ startPending = FALSE
    /\ cameraStarted = sc.cameraStarted
    /\ pausePending = "none"
    /\ storeItems = items
    /\ activeSkinRef = ActiveSkin(items)
    /\ activeCompanionRef = ActiveCompanion(items)
    /\ \E sc0 \in {SceneSetup(ActiveSkin(items), ActiveCompanion(items))} :
          /\ gpu = sc0.gpu
          /\ playerGroup = sc0.playerGroup
          /\ companionGroup = sc0.companionGroup
    /\ cleanedGpu = << >>
    /\ inst = key
    /\ cleanupLog = << >>
    /\ nextId = sc.id + 1
    /\ scheduled = {[id |-> sc.id, inst |-> key]}
    /\ frames = 0
    /\ gameOverCalls = 0
    /\ tickAfterCleanup = FALSE
    /\ instanceMatrix = GenerateInstances(follow.instances, follow.seed)
    /\ grid = GridSetup(follow.worldExtent, follow.chunkSize)
    /\ \E rnd \in [Draws(sc.c, sc.sig) -> RandPairs] :
          \E a \in {Animate([sc.c EXCEPT
                               !.lods = ScenarioLods(sc, follow.lods)],
                           sc.sig, ActiveCompanion(items), sc.id, rnd)} :
             /\ frameIdRef = a.c.frameIdRef
             /\ timeRef = a.c.timeRef
             /\ isPausedRef = a.c.isPausedRef
             /\ playerPosition = a.c.pos
             /\ playerVelocity = a.c.vel
             /\ shards = a.c.shards
             /\ camera = a.c.camera
             /\ lods = a.c.lods
             /\ companion = a.c.companion
             /\ env = a.c.env
             /\ lastTick = TickRecord(a, sc.c, sc.viaFrame)
             /\ xp = HandleCollectShard(sc.xp, Len(a.collected))
             /\ pickups = (sc.xp + SpentOn(items)) \div XP_PER_SHARD
                          + Len(a.collected)
             /\ rendered = [xp |-> sc.xp, storeItems |-> items]
    /\ spent = SpentOn(items)
    /\ error = ""
    /\ delivered = 0

Init == \E sc \in Scenarios : Start(sc, INITIAL_STORE_ITEMS, 0, NoChunks)

\* ---------------------------------------------------------------- actions
\* (variant of SignalsAfterTick: the tick consumes the fist gesture)
SignalsConsumed(sig) == [sig EXCEPT !.isFist = FALSE]

\* systemStateRef.current after a call of animate: animate binds it to
\* state, reads handPosition.x, handSize, emotion and soundAmplitude of it
\* and assigns to no field
SignalsAfterTick(sig) == sig

\* the browser runs the animation-frame request f
Tick(f) ==
    /\ f \in scheduled
    /\ frames < MaxFrames
    /\ frames' = frames + 1
    /\ nextId' = nextId + 1
    /\ scheduled' = (scheduled \ {f}) \cup {[id |-> nextId, inst |-> f.inst]}
    /\ IF f.inst = inst
       THEN \E rnd \in [Draws(Canvas, systemState) -> RandPairs] :
              \E a \in {Animate(Canvas, systemState, activeCompanionRef,
                               nextId, rnd)} :
                  /\ SetCanvas(a.c)
                  /\ lastTick' = TickRecord(a, Canvas, TRUE)
                  /\ xp' = HandleCollectShard(xp, Len(a.collected))
                  /\ pickups' = pickups + Len(a.collected)
                  /\ gameOverCalls' = gameOverCalls
                                      + (IF a.kind = "gameOver" THEN 1 ELSE 0)
                  /\ status' = IF a.kind = "gameOver"
                               THEN HandleGameOver(status) ELSE status
                  /\ UNCHANGED tickAfterCleanup
       ELSE /\ tickAfterCleanup' = TRUE
            /\ UNCHANGED << frameIdRef, timeRef, isPausedRef, playerPosition,
                            playerVelocity, shards, camera, lods, companion, env,
                            lastTick, xp, pickups, gameOverCalls, status >>
    /\ systemState' = SignalsAfterTick(systemState)
    /\ UNCHANGED << gameKey, startPending, error, cameraStarted,
                    pausePending, inst, cleanupLog,
                    activeCompanionRef >>
    /\ UNCHANGED sceneVars

\* the effect on [isPaused]: isPausedRef.current = isPaused
SyncPaused ==
    /\ isPausedRef # (status = "PAUSED")
    /\ isPausedRef' = (status = "PAUSED")
    /\ UNCHANGED << status, gameKey, xp, pickups, systemState, startPending, error,
                    cameraStarted, pausePending, scheduled, nextId, inst,
                    cleanupLog, frameIdRef, timeRef, playerPosition,
                    playerVelocity, shards, camera, lods, companion, env,
                    activeCompanionRef, frames, lastTick, gameOverCalls,
                    tickAfterCleanup >>
    /\ UNCHANGED sceneVars

\* togglePause up to its await: suspend when RUNNING, resume when PAUSED
TogglePauseBegin ==
    /\ pausePending = "none"
    /\ status \in {"RUNNING", "PAUSED"}
    /\ pausePending' = IF status = "RUNNING" THEN "toPaused" ELSE "toRunning"
    /\ UNCHANGED << status, gameKey, xp, pickups, systemState, startPending, error,
                    cameraStarted, scheduled, nextId, inst, cleanupLog, frameIdRef, timeRef, isPausedRef,
                    playerPosition, playerVelocity, shards, camera, lods, companion,
                    env, activeCompanionRef, frames, lastTick, gameOverCalls,
                    tickAfterCleanup >>
    /\ UNCHANGED sceneVars

\* togglePause after its await: setStatus(PAUSED) or setStatus(RUNNING)
TogglePauseEnd ==
    /\ pausePending # "none"
    /\ status' = IF pausePending = "toPaused" THEN "PAUSED" ELSE "RUNNING"
    /\ pausePending' = "none"
    /\ UNCHANGED << gameKey, xp, pickups, systemState, startPending, error, cameraStarted,
                    scheduled, nextId, inst, cleanupLog, frameIdRef,
                    timeRef, isPausedRef, playerPosition, playerVelocity,
                    shards, camera, lods, companion, env, activeCompanionRef,
                    frames, lastTick, gameOverCalls, tickAfterCleanup >>
    /\ UNCHANGED sceneVars

\* handleStart up to its first await (the start and restart buttons)
HandleStart ==
    /\ ~startPending
    /\ status \in {"IDLE", "GAME_OVER"}
    /\ gameKey' = IF status = "GAME_OVER" THEN gameKey + 1 ELSE gameKey
    /\ status' = "LOADING"
    /\ error' = ""
    /\ startPending' = TRUE
    /\ UNCHANGED << xp, pickups, systemState, cameraStarted, pausePending, scheduled,
                    nextId, inst, cleanupLog, frameIdRef, timeRef,
                    isPausedRef, playerPosition, playerVelocity, shards,
                    camera, lods, companion, env, activeCompanionRef, frames,
                    lastTick, gameOverCalls, tickAfterCleanup >>
    /\ UNCHANGED sceneVars

\* what an awaited initialisation may throw: the error of initTracking (the
\* one of initAudio differs in its text only), and an error of the browser
\* that carries no message
Failures ==
    { [message |-> "Failed to initialize tracking."],
      [message |-> ""] }

\* (variant of ErrorMessage: the message of the error as it is)
ErrorMessageAsThrown(e) == e.message

\* e.message || "Initialization failed"
ErrorMessage(e) ==
    IF e.message = "" THEN "Initialization failed" ELSE e.message

\* handleStart once its awaited initialisations settle
StartSettle(ok) ==
    /\ startPending
    /\ startPending' = FALSE
    /\ status' = IF ok THEN "RUNNING" ELSE "ERROR"
    /\ \E e \in Failures :
          error' = IF ok THEN error ELSE ErrorMessage(e)
    /\ cameraStarted' = (cameraStarted \/ ok)
    /\ UNCHANGED << gameKey, xp, pickups, systemState, pausePending, scheduled, nextId,
                    inst, cleanupLog, frameIdRef, timeRef,
                    isPausedRef, playerPosition, playerVelocity, shards,
                    camera, lods, companion, env, activeCompanionRef, frames,
                    lastTick, gameOverCalls, tickAfterCleanup >>
    /\ UNCHANGED sceneVars

\* React commits the new key: the old canvas is cleaned up, a new one mounts
Remount ==
    /\ gameKey # inst
    /\ LET cl == Cleanup(scheduled, frameIdRef)
           c  == [Fresh(status = "PAUSED", SpawnShards) EXCEPT
                     !.lods = GenerateLods(DOMAIN lods)]
       IN  \E rnd \in [Draws(c, systemState) -> RandPairs] :
              \E a \in {Animate(c, systemState, ActiveCompanion(storeItems),
                               nextId, rnd)} :
                  /\ SetCanvas(a.c)
                  /\ scheduled' = cl.scheduled
                                  \cup {[id |-> nextId, inst |-> gameKey]}
                  /\ cleanupLog' = cl.log
                  /\ lastTick' = TickRecord(a, c, FALSE)
                  /\ xp' = HandleCollectShard(xp, Len(a.collected))
                  /\ pickups' = pickups + Len(a.collected)
    /\ cleanedGpu' = gpu
    /\ \E seed \in FieldSeeds :
          instanceMatrix' = GenerateInstances(DOMAIN instanceMatrix, seed)
    /\ grid' = GridSetup(grid.worldExtent, grid.chunkSize)
    /\ activeSkinRef' = ActiveSkin(storeItems)
    /\ activeCompanionRef' = ActiveCompanion(storeItems)
    /\ \E sc0 \in {SceneSetup(ActiveSkin(storeItems),
                              ActiveCompanion(storeItems))} :
          /\ gpu' = sc0.gpu
          /\ playerGroup' = sc0.playerGroup
          /\ companionGroup' = sc0.companionGroup
    /\ nextId' = nextId + 1
    /\ inst' = gameKey
    /\ gameOverCalls' = 0
    /\ UNCHANGED << status, gameKey, systemState, startPending, error, cameraStarted,
                    pausePending, frames, tickAfterCleanup, storeItems,
                    spent, delivered >>
    /\ rendered' = [xp |-> xp, storeItems |-> storeItems]

\* ---------------------------------------------------------- hand tracking
\* the integer square root
ISqrt(n) == CHOOSE r \in 0..2000 : r * r <= n /\ n < (r + 1) * (r + 1)

\* Math.hypot(dx, dy)
Hypot(dx, dy) == ISqrt(dx * dx + dy * dy)

\* results of the hand tracker: no hand, an incomplete landmark list, or the
\* landmarks palmCenter (9), wrist (0) and the finger tips (8, 12, 16, 20),
\* coordinates in 1/1000
HandResults ==
    { [hands |-> 0, complete |-> FALSE, palm |-> << 0, 0 >>,
       wrist |-> << 0, 0 >>, tips |-> << >>],
      [hands |-> 1, complete |-> FALSE, palm |-> << 0, 0 >>,
       wrist |-> << 0, 0 >>, tips |-> << >>],
      [hands |-> 1, complete |-> TRUE, palm |-> << 0, 500 >>,
       wrist |-> << 0, 630 >>,
       tips |-> << << 0, 300 >>, << 50, 300 >>, << 100, 300 >>, << 150, 350 >> >>],
      [hands |-> 1, complete |-> TRUE, palm |-> << 1000, 500 >>,
       wrist |-> << 1000, 800 >>,
       tips |-> << << 1000, 450 >>, << 990, 450 >>, << 980, 460 >>, << 970, 470 >> >>] }

\* (variant of HandsUpdate: a result without a hand leaves the signals as
\* they are)
HandsUpdateHolding(st, res) ==
    IF res.hands > 0 /\ res.complete
    THEN LET tipDist(k) == Hypot(res.tips[k][1] - res.palm[1],
                                 res.tips[k][2] - res.palm[2])
         IN  [st EXCEPT
                !.handPosition = [x |-> (1000 - res.palm[1]) * 2 - 1000,
                                  y |-> -(res.palm[2] * 2) + 1000],
                !.handSize = Hypot(res.palm[1] - res.wrist[1],
                                   res.palm[2] - res.wrist[2]),
                !.isFist = (tipDist(1) + tipDist(2) + tipDist(3)
                            + tipDist(4) < 350)]
    ELSE st

\* hands.onResults: the hand signals after the result res
HandsUpdate(st, res) ==
    IF res.hands > 0
    THEN IF ~res.complete THEN st
         ELSE LET tipDist(k) == Hypot(res.tips[k][1] - res.palm[1],
                                      res.tips[k][2] - res.palm[2])
                  tipToMcpDist == tipDist(1) + tipDist(2) + tipDist(3)
                                  + tipDist(4)
              IN  [st EXCEPT
                     !.handPosition = [x |-> (1000 - res.palm[1]) * 2 - 1000,
                                       y |-> -(res.palm[2] * 2) + 1000],
                     !.handSize = Hypot(res.palm[1] - res.wrist[1],
                                        res.palm[2] - res.wrist[2]),
                     !.isFist = (tipToMcpDist < 350)]
    ELSE [st EXCEPT !.handPosition = [x |-> 0, y |-> 0],
                    !.handSize = 120,
                    !.isFist = FALSE]

\* the hand tracker delivers a result for a frame the camera has sent
HandsOnResults(res) ==
    /\ cameraStarted
    /\ systemState' = HandsUpdate(systemState, res)
    /\ UNCHANGED << status, gameKey, xp, pickups, startPending, error, cameraStarted,
                    pausePending, scheduled, nextId, inst, cleanupLog, frameIdRef, timeRef, isPausedRef,
                    playerPosition, playerVelocity, shards, camera, lods, companion,
                    env, activeCompanionRef, frames, lastTick, gameOverCalls,
                    tickAfterCleanup >>
    /\ UNCHANGED sceneVars

\* ---------------------------------------------------------- face tracking
\* values of rawCurvature = (centerY - cornersY) / width, in 1/1000
FaceCurvatures == { 500, 100, -400 }

\* (variant of FaceUpdate: the raw curvature selects the emotion)
FaceUpdateUnsmoothed(st, raw) ==
    LET curvature == TruncDiv(st.mouthCurvature * 9 + raw, 10)
    IN  [st EXCEPT !.mouthCurvature = curvature,
                   !.emotion = IF raw > 40 THEN "HAPPY"
                               ELSE IF raw < -30 THEN "SAD"
                               ELSE "CALM"]

\* faceMesh.onResults for a face with the raw curvature raw: the smoothed
\* curvature and the emotion it selects
FaceUpdate(st, raw) ==
    LET curvature == TruncDiv(st.mouthCurvature * 9 + raw, 10)
    IN  [st EXCEPT !.mouthCurvature = curvature,
                   !.emotion = IF curvature > 40 THEN "HAPPY"
                               ELSE IF curvature < -30 THEN "SAD"
                               ELSE "CALM"]

\* results of the face tracker: no face, a face without its landmark list,
\* a face with a mouth landmark missing, or the landmarks leftCorner (61),
\* rightCorner (291), upperLip (13) and lowerLip (14), coordinates in 1/1000
FaceResults ==
    { [faces |-> 0, landmarks |-> FALSE, complete |-> FALSE,
       left |-> << 0, 0 >>, right |-> << 0, 0 >>, upper |-> << 0, 0 >>,
       lower |-> << 0, 0 >>],
      [faces |-> 1, landmarks |-> FALSE, complete |-> FALSE,
       left |-> << 0, 0 >>, right |-> << 0, 0 >>, upper |-> << 0, 0 >>,
       lower |-> << 0, 0 >>],
      [faces |-> 1, landmarks |-> TRUE, complete |-> FALSE,
       left |-> << 400, 550 >>, right |-> << 600, 550 >>,
       upper |-> << 500, 640 >>, lower |-> << 0, 0 >>],
      [faces |-> 1, landmarks |-> TRUE, complete |-> TRUE,
       left |-> << 400, 550 >>, right |-> << 600, 550 >>,
       upper |-> << 500, 640 >>, lower |-> << 500, 660 >>],
      [faces |-> 1, landmarks |-> TRUE, complete |-> TRUE,
       left |-> << 400, 600 >>, right |-> << 600, 600 >>,
       upper |-> << 500, 610 >>, lower |-> << 500, 630 >>],
      [faces |-> 2, landmarks |-> TRUE, complete |-> TRUE,
       left |-> << 380, 690 >>, right |-> << 620, 650 >>,
       upper |-> << 500, 570 >>, lower |-> << 500, 576 >>] }

\* rawCurvature = (centerY - cornersY) / width of a complete face, in 1/1000
RawCurvature(res) ==
    LET width == Hypot(res.right[1] - res.left[1], res.right[2] - res.left[2])
    IN  TruncDiv((res.upper[2] + res.lower[2] - res.left[2] - res.right[2])
                    * 1000,
                 2 * width)

\* faceMesh.onResults: the first face counts, and only with its four mouth
\* landmarks
FaceMeshUpdate(st, res) ==
    IF res.faces > 0 /\ res.landmarks /\ res.complete
    THEN FaceUpdate(st, RawCurvature(res))
    ELSE st

\* the face tracker delivers a result for a frame the camera has sent
FaceMeshOnResults(res) ==
    /\ cameraStarted
    /\ delivered < MaxResults
    /\ delivered' = delivered + 1
    /\ systemState' = FaceMeshUpdate(systemState, res)
    /\ UNCHANGED << status, gameKey, xp, pickups, startPending, error,
                    cameraStarted, pausePending, scheduled, nextId, inst,
                    cleanupLog, frameIdRef, timeRef, isPausedRef,
                    playerPosition, playerVelocity, shards, camera, lods,
                    companion, env, activeCompanionRef, frames, lastTick,
                    gameOverCalls, tickAfterCleanup, storeItems, spent,
                    rendered >>
    /\ UNCHANGED assetVars

\* ------------------------------------------------------------------ audio
\* values of amplitude = sum / (bufferLength * 255), in 1/1000
AudioLevels == { 600 }

\* the interval callback of the audio effect, which exists while the status
\* is RUNNING: the smoothed amplitude takes one step toward the sample
AudioInterval(amplitude) ==
    /\ status = "RUNNING"
    /\ cameraStarted
    /\ delivered < MaxResults
    /\ delivered' = delivered + 1
    /\ systemState' =
          [systemState EXCEPT
             !.soundAmplitude = TruncDiv(systemState.soundAmplitude * 9
                                            + amplitude, 10)]
    /\ UNCHANGED << status, gameKey, xp, pickups, startPending, error,
                    cameraStarted, pausePending, scheduled, nextId, inst,
                    cleanupLog, frameIdRef, timeRef, isPausedRef,
                    playerPosition, playerVelocity, shards, camera, lods,
                    companion, env, activeCompanionRef, frames, lastTick,
                    gameOverCalls, tickAfterCleanup, storeItems, spent,
                    rendered >>
    /\ UNCHANGED assetVars

\* ---------------------------------------------------------- specification
Next ==
    \/ \E f \in scheduled : Tick(f)
    \/ SyncPaused
    \/ TogglePauseBegin
    \/ TogglePauseEnd
    \/ HandleStart
    \/ \E ok \in BOOLEAN : StartSettle(ok)
    \/ Remount
    \/ \E res \in HandResults : HandsOnResults(res)

Spec == Init /\ [][Next]_vars

\* ------------------------------------------------- cosmetics specification
\* the cosmetic selections made on the mounted canvas and on the one cleaned
\* up before it: each rebuilt both subtrees, creating four resources
Selections ==
    LET base == Len(SceneSetup("skin_default", "comp_butterfly").gpu)
    IN  (Len(gpu) - base) \div 4
        + (IF cleanedGpu = << >> THEN 0 ELSE (Len(cleanedGpu) - base) \div 4)

\* the equip button of item k in the shop (shown for an unlocked item that is
\* not active, the shop opening from the running and the paused screen):
\* handleEquip, then the render and the effect on [activeSkin,
\* activeCompanion] of the mounted canvas
Equip(k) ==
    /\ status \in {"RUNNING", "PAUSED"}
    /\ k \in 1..Len(storeItems)
    /\ storeItems[k].unlocked
    /\ ~storeItems[k].active
    /\ Selections < MaxEquips
    /\ \E items \in {HandleEquip(storeItems, storeItems[k])} :
          /\ storeItems' = items
          /\ rendered' = [xp |-> xp, storeItems |-> items]
          /\ activeSkinRef' = ActiveSkin(items)
          /\ activeCompanionRef' = ActiveCompanion(items)
          /\ \E e \in {CosmeticsEffect(playerGroup, companionGroup, gpu,
                                       ActiveSkin(items),
                                       ActiveCompanion(items))} :
                /\ gpu' = e.gpu
                /\ playerGroup' = e.playerGroup
                /\ companionGroup' = e.companionGroup
    /\ UNCHANGED << status, gameKey, xp, pickups, systemState, startPending, error,
                    cameraStarted, pausePending, scheduled, nextId, inst,
                    cleanupLog, frameIdRef, timeRef, isPausedRef,
                    playerPosition, playerVelocity, shards, camera, lods, companion,
                    env, frames, lastTick, gameOverCalls, tickAfterCleanup,
                    cleanedGpu, instanceMatrix, grid, spent, delivered >>

\* the walk one tick further: the player stands on the boundary, the next
\* call of animate takes them across it
CrossingScenario ==
    LET a == Animate(Walked, WalkSignal, "comp_butterfly", 5766,
                     [i \in Draws(Walked, WalkSignal) |-> << -500, 499 >>])
    IN  [ c |-> a.c, sig |-> WalkSignal, status |-> "RUNNING",
          cameraStarted |-> TRUE,
          xp |-> HandleCollectShard(50, Len(a.collected)), id |-> 5767,
          viaFrame |-> TRUE ]

\* a later game of a player who has bought every item: the second canvas,
\* the player having just walked across the boundary. The behaviours are
\* those in which the initialisations awaited by handleStart stay pending.
InitCosmetics == Start(CrossingScenario, StockedStore, 1, NoChunks)

NextCosmetics ==
    \/ \E f \in scheduled : Tick(f)
    \/ HandleStart
    \/ Remount
    \/ \E k \in 1..Len(storeItems) : Equip(k)

SpecCosmetics == InitCosmetics /\ [][NextCosmetics]_vars

\* ----------------------------------------------- environment specification
\* the environment part of a call of animate that reaches it: the elapsed
\* time advances and every smoothed value takes one step toward the target
\* of the emotion
AmbientTick ==
    /\ frames < MaxBlendTicks
    /\ ~SkipsFrame(isPausedRef)
    /\ ~IsOutOfBounds(playerPosition)
    /\ frames' = frames + 1
    /\ timeRef' = timeRef + 1
    /\ env' = Blend(env, systemState.emotion)
    /\ UNCHANGED << status, gameKey, xp, pickups, systemState, startPending, error,
                    cameraStarted, pausePending, scheduled, nextId, inst,
                    cleanupLog, frameIdRef, isPausedRef, playerPosition,
                    playerVelocity, shards, camera, lods, companion,
                    activeCompanionRef, lastTick, gameOverCalls,
                    tickAfterCleanup >>
    /\ UNCHANGED sceneVars

\* the canvases the blending starts from: the one just mounted, its values
\* as constructed, and the one of the walk, its values settled on the CALM
\* targets; the tracker is running
BlendScenarios ==
    { [FreshScenario EXCEPT !.status = "RUNNING", !.cameraStarted = TRUE],
      WalkedScenario }

\* the face tracker has delivered one result
InitBlend ==
    \E sc \in BlendScenarios : \E raw \in FaceCurvatures :
       Start([sc EXCEPT !.sig = FaceUpdate(sc.sig, raw)],
             INITIAL_STORE_ITEMS, 0, NoChunks)

NextBlend == AmbientTick

SpecBlend == InitBlend /\ [][NextBlend]_vars

\* ------------------------------------------------------- weather particles
\* the particles of the weather system as the setup draws them: the initial
\* height (Math.random() - 0.5) * 200 in 1/Scale and the seed Math.random()
\* in 1/1000 (the attribute is stored as float32, which can round the
\* height up to 100)
WeatherParticles ==
    [ y0 : {-100 * Scale, 9 - 100 * Scale, -50 * Scale, 0, 9, 37 * Scale,
            100 * Scale - 1, 100 * Scale},
      seed : {0, 500, 999} ]

\* fallOffset = uTime * uSpeed * (0.8 + 0.4 * aRandom), in 1/Scale
\* (time in 1/100, speed and seed in 1/1000)
FallOffset(seed, time, speed) ==
    TruncDiv(TruncDiv(time * speed, 1000) * (800 + TruncDiv(400 * seed, 1000)),
             1000)

\* pos.y = 100.0 - mod((100.0 - pos.y) + fallOffset, height), height 200.0;
\* mod(x, y) is x - y * floor(x / y)
ParticleY(y0, seed, time, speed) ==
    100 * Scale
      - ((100 * Scale - y0 + FallOffset(seed, time, speed)) % (200 * Scale))

\* normY = (pos.y + 100.0) / 200.0, in 1/1000
NormY(y) == TruncDiv((y + 100 * Scale) * 1000, 200 * Scale)

\* t * t * (3 - 2 t) for t = clamp((x - edge0) / (edge1 - edge0), 0, 1),
\* all in 1/1000
Hermite(edge0, edge1, x) ==
    LET q == TruncDiv((x - edge0) * 1000, edge1 - edge0)
        t == IF q < 0 THEN 0 ELSE IF q > 1000 THEN 1000 ELSE q
    IN  TruncDiv(TruncDiv(t * t, 1000) * (3000 - 2 * t), 1000)

\* the results smoothstep(edge0, edge1, x) can have: the Hermite
\* interpolation for edge0 < edge1; for edge0 >= edge1 the shading language
\* leaves the result undefined, the interpolation formula being one
\* outcome among others
SmoothstepResults(edge0, edge1, x) ==
    IF edge0 < edge1 THEN { Hermite(edge0, edge1, x) }
    ELSE { Hermite(edge0, edge1, x), 0, 500, 1000 }

\* vAlpha = smoothstep(0.0, 0.15, normY) * smoothstep(1.0, 0.85, normY)
AlphaResults(normY) ==
    { TruncDiv(a * b, 1000) : a \in SmoothstepResults(0, 150, normY),
                             b \in SmoothstepResults(1000, 850, normY) }

\* -------------------------------------------------------- grass deformation
\* interactRadius = 35.0, in 1/Scale
INTERACT_RADIUS == 35 * Scale

\* the integer square root of n, found by bisection between lo and hi
RECURSIVE RootBetween(_, _, _)
RootBetween(n, lo, hi) ==
    IF lo >= hi THEN lo
    ELSE LET mid == (lo + hi + 1) \div 2
         IN  IF mid * mid <= n THEN RootBetween(n, mid, hi)
             ELSE RootBetween(n, lo, mid - 1)

\* distance(worldPos.xz, uPlayerPosition.xz) in 1/Scale for a vertex at
\* (x, z) and the player position pp; distances from the interaction radius
\* on are reported as the larger of the two axis distances when that alone
\* reaches the radius
PlanarDistance(x, z, pp) ==
    LET dx == Abs(x - pp.x)
        dz == Abs(z - pp.z)
    IN  IF dx >= INTERACT_RADIUS \/ dz >= INTERACT_RADIUS
        THEN IF dx > dz THEN dx ELSE dz
        ELSE RootBetween(dx * dx + dz * dz, 0, 2 * INTERACT_RADIUS)

\* (variant of PushFactor: the full push everywhere inside the radius)
PushFactorHardEdge(dist, heightThirds) ==
    IF dist < INTERACT_RADIUS
    THEN INTERACT_RADIUS * INTERACT_RADIUS * 12 * heightThirds
    ELSE 0

\* pushFactor = pow(1.0 - dist / interactRadius, 2.0) * 12.0 * heightPercent
\* inside the radius and no push from the radius on; dist in 1/Scale,
\* heightPercent in thirds (the blade has three height segments), the result
\* in 1/(3 * INTERACT_RADIUS^2), in which it is exact
PushFactor(dist, heightThirds) ==
    IF dist < INTERACT_RADIUS
    THEN (INTERACT_RADIUS - dist) * (INTERACT_RADIUS - dist) * 12
           * heightThirds
    ELSE 0

\* vertices of grass blades by their world position after the wind offset
\* (1/Scale) and their height along the blade (thirds): around the origin
\* on both sides of the interaction radius, and along the ways the player
\* walks
GrassVertices ==
    [ x : {0, 1700, 3499, 3500, 3501, 6000}, z : {0}, h : {0, 1, 3} ]
    \cup [ x : {0, 2000}, z : {-4000, -2100, 900, 3500}, h : {2, 3} ]

\* ------------------------------------------------ kinematics specification
\* the movement part of a call of animate that is not paused: the elapsed
\* time advances and, unless the player is out of bounds, the velocity is
\* filtered toward the hand signal and the position advanced
MoveTick ==
    /\ frames < MaxMoveTicks
    /\ ~SkipsFrame(isPausedRef)
    /\ frames' = frames + 1
    /\ timeRef' = timeRef + 1
    /\ \E pv \in {TickPlayer(playerPosition, playerVelocity, systemState)} :
          /\ playerPosition' = pv.pos
          /\ playerVelocity' = pv.vel
    /\ UNCHANGED << status, gameKey, xp, pickups, systemState, startPending, error,
                    cameraStarted, pausePending, scheduled, nextId, inst,
                    cleanupLog, frameIdRef, isPausedRef, shards, camera, lods,
                    companion, env, activeCompanionRef, lastTick,
                    gameOverCalls, tickAfterCleanup >>
    /\ UNCHANGED sceneVars

\* a hand held still in front of the camera, the wrist straight below the
\* palm centre at the distance size, the fingers spread (1/1000)
HeldHand(palmX, size) ==
    [ hands |-> 1, complete |-> TRUE, palm |-> << palmX, 500 >>,
      wrist |-> << palmX, 500 + size >>,
      tips |-> << << palmX - 150, 300 >>, << palmX - 50, 250 >>,
                  << palmX + 50, 250 >>, << palmX + 150, 300 >> >> ]

\* the results the hand tracker delivers for the hands held: one a quarter
\* into the picture at neutral size (handPosition.x = 0.5), the others in
\* the middle of the picture at sizes inside, on the edges of and outside
\* the deadzone
KinematicResults ==
    { HeldHand(250, 120) } \cup
    { HeldHand(500, size) :
        size \in {80, 98, 100, 110, 120, 140, 142, 160, 300} }

\* the canvas just mounted, the tracker running and having delivered the
\* result of a held hand
InitKinematics ==
    \E res \in KinematicResults :
       Start([FreshScenario EXCEPT
                 !.status = "RUNNING", !.cameraStarted = TRUE,
                 !.sig = HandsUpdate(InitialSystemState, res)],
             INITIAL_STORE_ITEMS, 0, NoChunks)

NextKinematics == MoveTick

SpecKinematics == InitKinematics /\ [][NextKinematics]_vars

\* ------------------------------------------------------ field specification
\* the instance matrices are followed for the chunk at the origin and for a
\* corner chunk, the levels of detail for every chunk
FollowedInstances == { << 0, 0 >>, << -(TOTAL_CHUNKS_SIDE \div 2),
                                      TOTAL_CHUNKS_SIDE \div 2 - 1 >> }

\* a canvas just mounted, and one whose player is about to walk across the
\* boundary
FieldScenarios == { FreshScenario, CrossingScenario }

InitField ==
    \E sc \in FieldScenarios : \E seed \in FieldSeeds :
       Start(sc, INITIAL_STORE_ITEMS, 1,
             [lods |-> ChunkIndices, instances |-> FollowedInstances,
              seed |-> seed, worldExtent |-> WORLD_EXTENT,
              chunkSize |-> CHUNK_SIZE])

NextField ==
    \/ \E f \in scheduled : Tick(f)
    \/ HandleStart
    \/ Remount

SpecField == InitField /\ [][NextField]_vars

\* ---------------------------------------------- configuration specification
\* sizings of the grid, as the constants at the top of the file may be set:
\* the sizing of the source, another valid one, and invalid ones
GridConfigs ==
    { << WORLD_EXTENT, CHUNK_SIZE >>, << 6000, 3000 >>, << WORLD_EXTENT, 0 >>,
      << WORLD_EXTENT, -CHUNK_SIZE >>, << WORLD_EXTENT, 7000 >>,
      << 3000, CHUNK_SIZE >> }

\* the sequence q up to and including its element for the variable var
Through(q, var) ==
    SubSeq(q, 1, CHOOSE k \in 1..Len(q) : q[k].var = var)

\* the page whose setup effect does not return from the chunk generation:
\* App is as constructed, of the scene there is what the effect has made
\* before the chunk loops, animate has not been called and no frame is
\* requested
HungSetup(items, key, extent, size) ==
    /\ status = "IDLE"
    /\ gameKey = key
    /\ xp = 0
    /\ pickups = 0
    /\ spent = 0
    /\ rendered = [xp |-> 0, storeItems |-> items]
    /\ delivered = 0
    /\ error = ""
    /\ systemState = InitialSystemState
    /\ startPending = FALSE
    /\ cameraStarted = FALSE
    /\ pausePending = "none"
    /\ storeItems = items
    /\ activeSkinRef = ActiveSkin(items)
    /\ activeCompanionRef = ActiveCompanion(items)
    /\ \E sc0 \in {SceneSetup(ActiveSkin(items), ActiveCompanion(items))} :
          /\ gpu = Through(sc0.gpu, "grassMat")
          /\ companionGroup = sc0.companionGroup
    /\ playerGroup = << >>
    /\ cleanedGpu = << >>
    /\ inst = key
    /\ cleanupLog = << >>
    /\ nextId = 1
    /\ scheduled = {}
    /\ frames = 0
    /\ gameOverCalls = 0
    /\ tickAfterCleanup = FALSE
    /\ instanceMatrix = GenerateInstances({}, 0)
    /\ grid = GridSetup(extent, size)
    /\ \E c \in {Fresh(FALSE, << >>)} :
          /\ frameIdRef = c.frameIdRef
          /\ timeRef = c.timeRef
          /\ isPausedRef = c.isPausedRef
          /\ playerPosition = c.pos
          /\ playerVelocity = c.vel
          /\ shards = c.shards
          /\ camera = c.camera
          /\ lods = c.lods
          /\ companion = c.companion
          /\ env = c.env
          /\ lastTick = [ kind |-> "none", collected |-> << >>,
                          startPos |-> c.pos, startVel |-> c.vel,
                          before |-> c.shards, viaFrame |-> FALSE ]

\* the page after its first render under one of the sizings, the tracking
\* camera started for the sizings under which the setup returns
InitConfig ==
    \E cfg \in GridConfigs :
       IF GridSetup(cfg[1], cfg[2]).outcome = "built"
       THEN Start([FreshScenario EXCEPT !.status = "RUNNING",
                                        !.cameraStarted = TRUE],
                  INITIAL_STORE_ITEMS, 0,
                  [NoChunks EXCEPT !.worldExtent = cfg[1],
                                   !.chunkSize = cfg[2]])
       ELSE HungSetup(INITIAL_STORE_ITEMS, 0, cfg[1], cfg[2])

\* a page that is stuck in its setup runs no handler
NextConfig ==
    /\ grid.outcome = "built"
    /\ \/ \E f \in scheduled : Tick(f)
       \/ \E res \in HandResults : HandsOnResults(res)

SpecConfig == InitConfig /\ [][NextConfig]_vars

\* ------------------------------------------------------- start specification
\* the first start of a page and the restart of a lost game, with the pause
\* button in between
InitStart ==
    \E sc \in {FreshScenario, CrossingScenario} :
       Start(sc, INITIAL_STORE_ITEMS, 0, NoChunks)

NextStart ==
    \/ \E f \in scheduled : Tick(f)
    \/ HandleStart
    \/ \E ok \in BOOLEAN : StartSettle(ok)
    \/ Remount
    \/ TogglePauseBegin
    \/ TogglePauseEnd

\* React commits a render it has scheduled: weak fairness of Remount,
\* written with the condition that enables Remount (the key differs from
\* the key of the mounted canvas) and with the change only Remount makes
RemountCommits == []<>(gameKey = inst) \/ []<><<inst' # inst>>_vars

\* the promises handleStart awaits settle (the calls whose promises do are
\* the ones in question), and a scheduled render is committed
FairStart ==
    /\ WF_vars(\E ok \in BOOLEAN : StartSettle(ok))
    /\ RemountCommits

SpecStart == InitStart /\ [][NextStart]_vars /\ FairStart

\* -------------------------------------------------------- shop specification
\* handlePurchase(item) as a render that saw the xp and the items of seen
\* has created it, item being entry k of that render: the condition is on
\* what the render saw, the two updates are functions of the state they
\* find
PurchaseFrom(seen, k, x, items) ==
    LET item == seen.storeItems[k]
    IN  IF seen.xp >= item.cost /\ ~item.unlocked
        THEN [ xp |-> x - item.cost,
               storeItems |-> [j \in 1..Len(items) |->
                                 IF items[j].id = item.id
                                 THEN [items[j] EXCEPT !.unlocked = TRUE]
                                 ELSE items[j]],
               deducted |-> item.cost ]
        ELSE [ xp |-> x, storeItems |-> items, deducted |-> 0 ]

\* the purchase button of item k, as the page shows it (for a locked item
\* the render could afford), calls the handlePurchase of that render
Purchase(k) ==
    /\ status \in {"RUNNING", "PAUSED"}
    /\ k \in 1..Len(rendered.storeItems)
    /\ ~rendered.storeItems[k].unlocked
    /\ rendered.xp >= rendered.storeItems[k].cost
    /\ delivered < MaxRequests
    /\ delivered' = delivered + 1
    /\ \E r \in {PurchaseFrom(rendered, k, xp, storeItems)} :
          /\ xp' = r.xp
          /\ storeItems' = r.storeItems
          /\ spent' = spent + r.deducted
    /\ UNCHANGED << status, gameKey, pickups, systemState, startPending, error,
                    cameraStarted, pausePending, scheduled, nextId, inst,
                    cleanupLog, frameIdRef, timeRef, isPausedRef,
                    playerPosition, playerVelocity, shards, camera, lods,
                    companion, env, activeCompanionRef, frames, lastTick,
                    gameOverCalls, tickAfterCleanup, rendered >>
    /\ UNCHANGED assetVars

\* handleEquip is called with item k of the render the page shows
RequestEquip(k) ==
    /\ status \in {"RUNNING", "PAUSED"}
    /\ k \in 1..Len(rendered.storeItems)
    /\ delivered < MaxRequests
    /\ delivered' = delivered + 1
    /\ storeItems' = HandleEquip(storeItems, rendered.storeItems[k])
    /\ UNCHANGED << status, gameKey, xp, pickups, systemState, startPending,
                    error, cameraStarted, pausePending, scheduled, nextId,
                    inst, cleanupLog, frameIdRef, timeRef, isPausedRef,
                    playerPosition, playerVelocity, shards, camera, lods,
                    companion, env, activeCompanionRef, frames, lastTick,
                    gameOverCalls, tickAfterCleanup, spent, rendered >>
    /\ UNCHANGED assetVars

\* React renders App with the state as it is: the handlers of the page are
\* those of this render, and the effect on [activeSkin, activeCompanion] of
\* the canvas runs if one of the two has changed
Render ==
    /\ rendered # [xp |-> xp, storeItems |-> storeItems]
    /\ rendered' = [xp |-> xp, storeItems |-> storeItems]
    /\ IF ActiveSkin(storeItems) = ActiveSkin(rendered.storeItems)
          /\ ActiveCompanion(storeItems) = ActiveCompanion(rendered.storeItems)
       THEN UNCHANGED << activeSkinRef, activeCompanionRef, gpu, playerGroup,
                         companionGroup >>
       ELSE /\ activeSkinRef' = ActiveSkin(storeItems)
            /\ activeCompanionRef' = ActiveCompanion(storeItems)
            /\ \E e \in {CosmeticsEffect(playerGroup, companionGroup, gpu,
                                         ActiveSkin(storeItems),
                                         ActiveCompanion(storeItems))} :
                  /\ gpu' = e.gpu
                  /\ playerGroup' = e.playerGroup
                  /\ companionGroup' = e.companionGroup
    /\ UNCHANGED << status, gameKey, xp, pickups, systemState, startPending,
                    error, cameraStarted, pausePending, scheduled, nextId,
                    inst, cleanupLog, frameIdRef, timeRef, isPausedRef,
                    playerPosition, playerVelocity, shards, camera, lods,
                    companion, env, frames, lastTick, gameOverCalls,
                    tickAfterCleanup, storeItems, spent, delivered,
                    cleanedGpu, instanceMatrix, grid >>

\* the xp a game has earned before (a multiple of the 50 of a shard)
ShopBalances == { 0, 250 }

\* another outcome of the draws of the spawn loop: shard 2 lies within the
\* collect radius of the origin as well
CloseShards == [SpawnShards EXCEPT ![2] = [@ EXCEPT !.z = 5 * Scale]]

\* a running game at its first frame, the store as constructed
InitShop ==
    \E x \in ShopBalances : \E sh \in {SpawnShards, CloseShards} :
       Start([FreshScenario EXCEPT !.c = Fresh(FALSE, sh),
                                   !.status = "RUNNING",
                                   !.cameraStarted = TRUE, !.xp = x],
             INITIAL_STORE_ITEMS, 0, NoChunks)

NextShop ==
    \/ frames < MaxShopFrames /\ \E f \in scheduled : Tick(f)
    \/ Render
    \/ \E k \in 1..Len(storeItems) : Purchase(k)
    \/ \E k \in 1..Len(storeItems) : RequestEquip(k)

SpecShop == InitShop /\ [][NextShop]_vars

\* ------------------------------------------------------ signal specification
\* a running game from its first frame on: the trackers and the audio
\* interval write the signals between the calls of animate
InitSignals ==
    Start([FreshScenario EXCEPT !.status = "RUNNING", !.cameraStarted = TRUE],
          INITIAL_STORE_ITEMS, 0, NoChunks)

\* the hand tracker loses the hand or sees it at the right of the picture
SignalHands == { res \in HandResults : res.hands = 0 \/ res.palm[1] = 1000 }

NextSignals ==
    \/ frames < MaxSignalFrames /\ \E f \in scheduled : Tick(f)
    \/ \E res \in SignalHands : HandsOnResults(res)
    \/ \E res \in FaceResults : FaceMeshOnResults(res)
    \/ \E amplitude \in AudioLevels : AudioInterval(amplitude)

SpecSignals == InitSignals /\ [][NextSignals]_vars

\* ----------------------------------------------------------------- claims
InSeq(i, q) == \E k \in 1..Len(q) : q[k] = i

Count(i, q) == Cardinality({k \in 1..Len(q) : q[k] = i})

\* the player is beyond the game-over radius
PlayerOut == DistGT(playerPosition.x, playerPosition.z, GAME_OVER_RADIUS)

\* the shard position s is within the collect radius of the player
NearPlayer(s) ==
    DistLT(s.x - playerPosition.x, s.z - playerPosition.z, COLLECT_RADIUS)

\* the shard position s is beyond the despawn radius of the player
FarFromPlayer(s) ==
    DistGT(s.x - playerPosition.x, s.z - playerPosition.z, DESPAWN_RADIUS)

\* the simulation state of the canvas
simVars == << timeRef, playerPosition, playerVelocity, shards, camera,
              lods, companion, env >>

\* C1: a call of animate calls onGameOver only when the position it starts
\* with is farther than GAME_OVER_RADIUS from the origin; at a distance of
\* 8000 or less, the boundary included, it does not.
C1_NoGameOverWithinRadius ==
    lastTick.kind = "gameOver" =>
        DistGT(lastTick.startPos.x, lastTick.startPos.z, GAME_OVER_RADIUS)

\* C1 witness: a frame ran with the player exactly at distance 8000 and
\* completed as a full tick, with no game over signalled.
C1_Witness ==
    /\ lastTick.viaFrame
    /\ lastTick.kind = "full"
    /\ lastTick.startPos = [x |-> GAME_OVER_RADIUS * Scale, z |-> 0]
    /\ gameOverCalls = 0

\* C2 (as claimed): a canvas instance calls onGameOver at most once.
C2_GameOverOnce == gameOverCalls <= 1

\* C3: once the player is beyond the radius, no step of the same canvas
\* instance changes playerPosition or playerVelocity.
C3_FrozenAfterCrossing ==
    [][(PlayerOut /\ inst' = inst)
         => UNCHANGED << playerPosition, playerVelocity >>]_vars

\* C3 witness: a frame ran after the crossing (it signalled game over) while
\* the hand signal asked for movement.
C3_Witness ==
    /\ lastTick.viaFrame
    /\ lastTick.kind = "gameOver"
    /\ PlayerOut
    /\ systemState.handPosition.x # 0

\* C4 (as claimed): after onGameOver has been signalled, no step of the same
\* canvas instance changes the simulation state, elapsed time included.
C4_NoAdvanceAfterGameOver ==
    [][(gameOverCalls >= 1 /\ inst' = inst) => UNCHANGED simVars]_vars

C6_PickupOncePerShard ==
    lastTick.kind = "full" =>
        \A i \in 1..ShardCount :
           /\ shards[i].rotY = lastTick.before[i].rotY + 2
           /\ shards[i].rotX = lastTick.before[i].rotX + 1
           /\ NearPlayer(lastTick.before[i]) =>
                 /\ Count(i, lastTick.collected) = 1
                 /\ Abs(shards[i].x - playerPosition.x) <= 1000 * Scale
                 /\ Abs(shards[i].z - playerPosition.z) <= 1000 * Scale
                 /\ shards[i].y = 5 * Scale
                 /\ shards[i].visible

\* C6 witness: a frame found a shard within the collect radius and picked it
\* up.
C6_Witness ==
    /\ lastTick.viaFrame
    /\ lastTick.kind = "full"
    /\ \E i \in 1..ShardCount :
          NearPlayer(lastTick.before[i]) /\ InSeq(i, lastTick.collected)

\* C7 (as claimed): a shard picked up in one tick is not picked up again in
\* the next tick of the same canvas when the player has not moved.
C7_NoRepeatedPickup ==
    [][\A i \in 1..ShardCount :
          (/\ lastTick.kind = "full"
           /\ InSeq(i, lastTick.collected)
           /\ lastTick' # lastTick
           /\ inst' = inst
           /\ playerPosition' = playerPosition)
          => ~InSeq(i, lastTick'.collected)]_vars

\* C8: after a full tick, every shard that was beyond the despawn radius of
\* the player when examined lies within 2000 of the player in x and in z,
\* hence closer than 8000, and onCollectShard was not called for it.
C8_DespawnRelocatesSilently ==
    lastTick.kind = "full" =>
        \A i \in 1..ShardCount :
           FarFromPlayer(lastTick.before[i]) =>
              /\ Abs(shards[i].x - playerPosition.x) <= 2000 * Scale
              /\ Abs(shards[i].z - playerPosition.z) <= 2000 * Scale
              /\ DistLT(shards[i].x - playerPosition.x,
                        shards[i].z - playerPosition.z, DESPAWN_RADIUS)
              /\ ~InSeq(i, lastTick.collected)

\* C8 witness: a frame found a shard beyond the despawn radius.
C8_Witness ==
    /\ lastTick.viaFrame
    /\ lastTick.kind = "full"
    /\ \E i \in 1..ShardCount : FarFromPlayer(lastTick.before[i])

\* C9: the pool holds exactly 150 shards and every shard is visible.
C9_PoolConstant ==
    /\ DOMAIN shards = 1..150
    /\ \A i \in DOMAIN shards : shards[i].visible

\* C9 witness: frames have picked up one shard and relocated another that
\* was beyond the despawn radius.
C9_Witness ==
    /\ lastTick.viaFrame
    /\ lastTick.kind = "full"
    /\ \/ lastTick.collected # << >>
       \/ \E i \in 1..ShardCount : FarFromPlayer(lastTick.before[i])
    /\ frames >= 2

\* the positions of the steps of kind op in the cleanup log
StepsOf(op) == {k \in 1..Len(cleanupLog) : cleanupLog[k].op = op}

\* C10: a cleanup cancels the pending animation frame before it removes the
\* canvas element or disposes anything; afterwards no request of the cleaned
\* up instance is pending and none of its callbacks has run.
C10_CancelBeforeRelease ==
    /\ cleanupLog # << >> =>
          /\ StepsOf("cancelAnimationFrame") # {}
          /\ \A k \in StepsOf("cancelAnimationFrame") :
                \A r \in StepsOf("dispose") \cup StepsOf("removeChild") : k < r
    /\ \A f \in scheduled : f.inst = inst
    /\ ~tickAfterCleanup

\* C10 witness: a cleanup has run and a frame of the next instance ran after
\* it.
C10_Witness ==
    /\ cleanupLog # << >>
    /\ inst = 1
    /\ lastTick.viaFrame
    /\ StepsOf("dispose") # {}

\* C11 (as claimed): once a cleanup has run, every GPU resource the cleaned
\* up instance had created (the renderer, every geometry and every material,
\* those of the cosmetic meshes included) has been disposed exactly once.
C11_ReleasedExactlyOnce ==
    cleanupLog # << >> =>
        \A k \in 1..Len(cleanedGpu) :
           Cardinality({j \in StepsOf("dispose") :
                          cleanupLog[j].target = cleanedGpu[k].var}) = 1

\* C12: the player group holds exactly one Mesh, built for the selected
\* skin; the companion group holds exactly the parts built for the selected
\* companion, 2 for firefly and spirit and 3 for butterfly.
C12_SubtreesMatchSelection ==
    /\ Cardinality({k \in 1..Len(playerGroup) :
                       playerGroup[k].type = "Mesh"}) = 1
    /\ \A k \in 1..Len(playerGroup) :
          playerGroup[k].type = "Mesh"
             => playerGroup[k].of = ActiveSkin(storeItems)
    /\ Len(companionGroup) =
          (IF ActiveCompanion(storeItems) \in {"comp_firefly", "comp_spirit"}
           THEN 2 ELSE 3)
    /\ \A k \in 1..Len(companionGroup) :
          companionGroup[k].of = ActiveCompanion(storeItems)

\* C12 witness: two selections were made on the mounted canvas, the second
\* one a skin, so that the companion was rebuilt for the variant it already
\* showed, a variant other than the initial one.
C12_Witness ==
    /\ Selections = 2
    /\ cleanedGpu = << >>
    /\ ActiveSkin(storeItems) # "skin_default"
    /\ ActiveCompanion(storeItems) # "comp_butterfly"
    /\ gpu[Len(gpu)].of = ActiveCompanion(storeItems)
    /\ gpu[Len(gpu) - 4].of = ActiveCompanion(storeItems)

\* the neutral hand signal
Neutral(st) ==
    /\ st.handPosition = [x |-> 0, y |-> 0]
    /\ st.handSize = 120
    /\ st.isFist = FALSE

\* C13: a tracking result without a hand sets the hand signals to the
\* neutral signal, whose handSize is NEUTRAL_SIZE; a tick that runs the
\* movement logic under the neutral signal has turn 0 and depth speed 0 and
\* leaves each velocity component at 0.9 of its value, no larger in
\* magnitude than before.
C13_NeutralSignalIdles ==
    /\ [](\A res \in HandResults :
             res.hands = 0 =>
                /\ Neutral(HandsUpdate(systemState, res))
                /\ HandsUpdate(systemState, res).handSize = NEUTRAL_SIZE)
    /\ [][(/\ Neutral(systemState)
           /\ lastTick' # lastTick
           /\ lastTick'.kind = "full"
           /\ inst' = inst)
          => /\ Turn(systemState.handPosition.x) = 0
             /\ SpeedZ(systemState.handSize) = 0
             /\ playerVelocity'.x = TruncDiv(playerVelocity.x * 9, 10)
             /\ playerVelocity'.y = TruncDiv(playerVelocity.y * 9, 10)
             /\ Abs(playerVelocity'.x) <= Abs(playerVelocity.x)
             /\ Abs(playerVelocity'.y) <= Abs(playerVelocity.y)]_vars

\* C13 witness: the tracker lost the hand while the player was moving, and a
\* frame then ran the movement logic: the velocity has decayed.
C13_Witness ==
    /\ Neutral(systemState)
    /\ lastTick.viaFrame
    /\ lastTick.kind = "full"
    /\ lastTick.startVel.x > 0
    /\ playerVelocity.x < lastTick.startVel.x
    /\ playerVelocity.x > 0

\* the scalar components of field f of an environment or target tuple
Components(e, f) ==
    IF f \in {"weatherSpeed", "weatherSway", "weatherSize", "haloOpacity"}
    THEN << e[f] >> ELSE e[f]

\* C14: a tick moves every smoothed value by (target - current) * r, r = 0.05
\* for every value but the halo opacity and r = 0.02 for the halo opacity;
\* under a constant emotion the distance to the target does not grow and the
\* value does not pass the target.
C14_SmoothingConverges ==
    [][(frames' = frames + 1 /\ systemState' = systemState)
         => \A f \in TargetFields :
               LET c == Components(env, f)
                   n == Components(env', f)
                   t == Components(Targets(systemState.emotion), f)
                   r == IF f = "haloOpacity" THEN 2 ELSE 5
               IN  \A k \in 1..Len(c) :
                      /\ n[k] = c[k] + TruncDiv((t[k] - c[k]) * r, 100)
                      /\ Abs(t[k] - n[k]) <= Abs(t[k] - c[k])
                      /\ (t[k] - c[k]) * (t[k] - n[k]) >= 0]_vars

\* C14 witness: the values had settled on the CALM targets when the emotion
\* switched to HAPPY; twenty ticks later the halo opacity is on its way from
\* the CALM to the HAPPY target.
C14_Witness ==
    /\ systemState.emotion = "HAPPY"
    /\ timeRef > 5000
    /\ frames >= 20
    /\ env.haloOpacity > Targets("CALM").haloOpacity
    /\ env.haloOpacity < Targets("HAPPY").haloOpacity
    /\ env.tip # Walked.env.tip

\* the values of the Emotion enum
Emotions == { "HAPPY", "CALM", "SAD" }

\* C17: the emotion is always one of HAPPY, CALM and SAD, and for each of
\* them the branch of the tick assigns every field of the target tuple, so
\* the tuple is the one of that emotion in every field, with no field left
\* at the value it was declared with.
C17_TargetsByEmotion ==
    /\ systemState.emotion \in Emotions
    /\ \A em \in Emotions :
          /\ DOMAIN EmotionBranch(em) = TargetFields
          /\ \A f \in TargetFields : Targets(em)[f] = EmotionBranch(em)[f]
    /\ DOMAIN Targets(systemState.emotion) = TargetFields

\* C17 witness: ticks have run under the emotion SAD, selected by a frown.
C17_Witness ==
    /\ systemState.emotion = "SAD"
    /\ systemState.mouthCurvature < 0
    /\ frames >= 1
    /\ env # InitialEnv

\* C15: with handPosition.x held at 0.5 and the velocity starting at 0, a
\* tick takes the lateral velocity v to 0.9 v + 0.1 * (0.5 * 2.5); the
\* velocity does not decrease and never exceeds 1.25.
C15_LateralVelocityBounded ==
    /\ [](systemState.handPosition.x = 500
            => /\ playerVelocity.x >= 0
               /\ playerVelocity.x * 100 <= 125 * Scale)
    /\ [][(systemState.handPosition.x = 500 /\ frames' = frames + 1)
            => /\ playerVelocity'.x
                    = TruncDiv(playerVelocity.x * 9 + (125 * Scale) \div 100,
                               10)
               /\ playerVelocity'.x >= playerVelocity.x]_vars

\* C15 witness: after thirty ticks and more under handPosition.x = 0.5 the
\* lateral velocity is above 1.1.
C15_Witness ==
    /\ systemState.handPosition.x = 500
    /\ frames >= 30
    /\ playerVelocity.x * 100 >= 110 * Scale
    /\ playerPosition.x > 0

\* the signed excess of the hand size h beyond the edge of the deadzone
Excess(h) ==
    IF h - NEUTRAL_SIZE > SIZE_DEADZONE THEN h - NEUTRAL_SIZE - SIZE_DEADZONE
    ELSE IF h - NEUTRAL_SIZE < -SIZE_DEADZONE
         THEN h - NEUTRAL_SIZE + SIZE_DEADZONE
    ELSE 0

\* the hand sizes the tracker reports for the hands held
HeldSizes == { HandsUpdate(InitialSystemState, res).handSize :
                 res \in KinematicResults }

\* C16 (as claimed): the depth speed is 0 inside the deadzone, edges
\* included; outside it is proportional to the signed excess beyond the edge
\* of the deadzone, with the same factor for every hand size, and a hand
\* larger than neutral gives a negative speed (forward).
C16_DepthSpeedByExcess ==
    LET h == systemState.handSize
    IN  /\ Abs(h - NEUTRAL_SIZE) <= SIZE_DEADZONE => SpeedZ(h) = 0
        /\ h - NEUTRAL_SIZE > SIZE_DEADZONE => SpeedZ(h) < 0
        /\ h - NEUTRAL_SIZE < -SIZE_DEADZONE => SpeedZ(h) > 0
        /\ \A g \in HeldSizes :
              SpeedZ(h) * Excess(g) = SpeedZ(g) * Excess(h)

Shown(lod) ==
    IF lod.levels[1].visible /\ ~lod.levels[2].visible THEN "high"
    ELSE IF lod.levels[2].visible /\ ~lod.levels[1].visible THEN "low"
    ELSE "none"

\* C18 (as claimed): after a call of animate that got as far as the update
\* of the levels of detail, every chunk shows exactly one of its two levels,
\* the high-detail mesh iff the camera is nearer than 2000 to the centre of
\* the chunk and the low-detail mesh otherwise, whatever it showed before.
C18_LevelByCameraDistance ==
    lastTick.kind = "full" =>
        \A ix \in DOMAIN lods :
           Shown(lods[ix])
             = IF DistBelow(camera, ChunkCenter(ix), LOW_DETAIL_DISTANCE)
               THEN "high" ELSE "low"

\* the points of the world square at which the tiling is probed: the
\* corners, the centre, points on shared chunk edges and inner points
ProbePoints ==
    { -WORLD_EXTENT, -58000, -1, 777, WORLD_EXTENT }
    \X { -WORLD_EXTENT, -999, 0, WORLD_EXTENT }

\* the point p lies in the square of side CHUNK_SIZE centred at c (a
\* position), its edges included
InSquare(p, c) ==
    /\ 2 * Abs(p[1] - c[1]) <= CHUNK_SIZE
    /\ 2 * Abs(p[2] - c[3]) <= CHUNK_SIZE

\* the point p lies inside the square of side CHUNK_SIZE centred at c
InsideSquare(p, c) ==
    /\ 2 * Abs(p[1] - c[1]) < CHUNK_SIZE
    /\ 2 * Abs(p[2] - c[3]) < CHUNK_SIZE

\* C19: the chunk generation creates exactly (2 * 60000 / 2000)^2 = 3600
\* chunks, centred at (i * 2000 + 1000, j * 2000 + 1000) for i, j in
\* -30..29, no two at the same centre; their squares of side 2000 cover the
\* square [-60000, 60000]^2 and no point lies inside two of them; each of
\* the two meshes of a chunk holds 5000 instances, the two meshes hold the
\* same matrices, and every instance lies within the square of its chunk.
C19_ChunksTileTheWorld ==
    LET centres == { lods[ix].position : ix \in DOMAIN lods }
    IN  /\ Cardinality(DOMAIN lods) = 3600
        /\ Cardinality(DOMAIN lods)
              = ((2 * 60000) \div 2000) * ((2 * 60000) \div 2000)
        /\ Cardinality(centres) = Cardinality(DOMAIN lods)
        /\ centres = { << i * 2000 + 1000, 0, j * 2000 + 1000 >> :
                         i \in -30..29, j \in -30..29 }
        /\ \A p \in ProbePoints :
              /\ \E c \in centres : InSquare(p, c)
              /\ Cardinality({ c \in centres : InsideSquare(p, c) }) <= 1
        /\ \A ix \in DOMAIN lods :
              \A k \in 1..2 : lods[ix].levels[k].count = 5000
        /\ \A ix \in DOMAIN instanceMatrix :
              LET im == instanceMatrix[ix]
              IN  /\ Len(im.meshHigh) = 5000
                  /\ Len(im.meshLow) = 5000
                  /\ im.meshHigh = im.meshLow
                  /\ \A j \in 1..Len(im.meshHigh) :
                        /\ 2 * Abs(im.meshHigh[j].px) <= CHUNK_SIZE * Scale
                        /\ 2 * Abs(im.meshHigh[j].pz) <= CHUNK_SIZE * Scale

\* C19 witness: a canvas mounted by a restart has generated its chunks, the
\* matrices of two of them are on record, and an instance of the chunk at
\* the origin sits on the edge of its chunk.
C19_Witness ==
    /\ inst = 2
    /\ Cardinality(DOMAIN lods) = TOTAL_CHUNKS_SIDE * TOTAL_CHUNKS_SIDE
    /\ Cardinality(DOMAIN instanceMatrix) = 2
    /\ \E j \in 1..INSTANCES_PER_CHUNK :
          2 * instanceMatrix[<< 0, 0 >>].meshHigh[j].px = -CHUNK_SIZE * Scale

\* the push of the grass vertex v with the player where the tick has put
\* the player (the uniform uPlayerPosition is copied from the player)
PushOf(v) == PushFactor(PlanarDistance(v.x, v.z, playerPosition), v.h)

\* C21: the push of a vertex is 0 at the interaction radius 35 and beyond;
\* of two vertices at the same positive height the one nearer to the player
\* is pushed strictly more as long as the farther one is not beyond the
\* radius; and within 0.01 of the radius the push is below 12 * (0.01/35)^2
\* times the height, so there is no jump at the radius.
C21_PushFallsToZeroAtRadius ==
    \A v \in GrassVertices :
       LET d == PlanarDistance(v.x, v.z, playerPosition)
       IN  /\ d >= 35 * Scale => PushOf(v) = 0
           /\ PushOf(v) >= 0
           /\ d >= 35 * Scale - 1 => PushOf(v) <= 12 * v.h
           /\ \A w \in GrassVertices :
                 ( /\ w.h = v.h
                   /\ v.h > 0
                   /\ d < PlanarDistance(w.x, w.z, playerPosition)
                   /\ PlanarDistance(w.x, w.z, playerPosition) <= 35 * Scale )
                 => PushOf(v) > PushOf(w)

\* C21 witness: after a tick one vertex of a blade tip is exactly on the
\* interaction radius, one is within 0.01 inside it and pushed, and one
\* nearer to the player is pushed more.
C21_Witness ==
    /\ frames >= 1
    /\ \E u, v, w \in GrassVertices :
          /\ u.h = 3 /\ v.h = 3 /\ w.h = 3
          /\ PlanarDistance(u.x, u.z, playerPosition) = 35 * Scale
          /\ PlanarDistance(v.x, v.z, playerPosition) = 35 * Scale - 1
          /\ PushOf(v) > 0
          /\ PlanarDistance(w.x, w.z, playerPosition) < 35 * Scale - 1
          /\ PushOf(w) > PushOf(v)

\* the sizing g is invalid: the chunk size is zero or negative, or the world
\* extent is not an integer multiple of the chunk size
InvalidGrid(g) ==
    \/ g.chunkSize <= 0
    \/ g.worldExtent % g.chunkSize # 0

\* C22 (as claimed): a canvas built with an invalid sizing of the grid has
\* aborted its setup, and no chunk has been generated.
C22_InvalidGridAborts ==
    InvalidGrid(grid) => (grid.outcome = "aborted" /\ grid.chunks = 0)

\* C23: a call of animate writes no field of the signal state, and what it
\* computes, it computes from the one value the signal state has when the
\* call begins: the velocity from the hand signal of that value and the
\* environment from the emotion of that value.
C23_TickReadsSnapshot ==
    [][frames' = frames + 1
         => /\ systemState' = systemState
            /\ (lastTick'.kind = "full" /\ lastTick' # lastTick)
                  => /\ playerVelocity'
                          = TickPlayer(playerPosition, playerVelocity,
                                       systemState).vel
                     /\ env' = Blend(env, systemState.emotion)
      ]_vars

\* C23 witness: a frame ran to its end on signals that the hand tracker, the
\* face tracker and the audio interval had all written.
C23_Witness ==
    /\ lastTick.viaFrame
    /\ lastTick.kind = "full"
    /\ systemState.handPosition.x # 0
    /\ systemState.emotion # "CALM"
    /\ systemState.soundAmplitude > 0
    /\ playerVelocity.x # 0
    /\ env # InitialEnv

\* C24 (as claimed): once the status is GAME_OVER it stays GAME_OVER until
\* handleStart is invoked, which sets it to LOADING; no other step changes
\* it, the continuation of a togglePause call that was started while the
\* game was running included.
C24_GameOverUntilRestart ==
    [][status = "GAME_OVER"
         => \/ status' = "GAME_OVER"
            \/ status' = "LOADING" /\ ~startPending /\ startPending'
      ]_vars

\* C25 (as claimed): the player position changes only in calls of animate
\* made while the status is RUNNING: under every other status a step of the
\* mounted canvas leaves the position as it is, and a canvas mounted under
\* another status has the player at the origin after its first call of
\* animate.
C25_MovesOnlyWhileRunning ==
    [][status # "RUNNING"
         => /\ inst' = inst => playerPosition' = playerPosition
            /\ inst' # inst => playerPosition' = [x |-> 0, z |-> 0]
      ]_vars

\* C26 (as claimed): whatever pickups and purchase requests have happened,
\* two purchases made by the handlers of one render included, the xp is not
\* negative and no item has had its cost deducted more than once: what has
\* been deducted is at most the cost of the items that are unlocked.
C26_NoDoubleSpend ==
    /\ xp >= 0
    /\ spent <= SpentOn(storeItems)

\* C27: at all times the xp is 50 times the number of onCollectShard calls
\* made so far minus the costs deducted so far: no pickup is lost, neither
\* among several of one call of animate nor next to a purchase.
C27_XpLedger == xp = XP_PER_SHARD * pickups - spent

\* C27 witness: a call of animate has collected two shards, and a purchase
\* has been made by a render that had not seen them.
C27_Witness ==
    /\ Len(lastTick.collected) >= 2
    /\ spent > 0
    /\ rendered.xp < xp + spent

\* the items of a type that are active
ActiveItems(items, type) ==
    {k \in 1..Len(items) : items[k].type = type /\ items[k].active}

\* C28: whatever purchases and equip requests have happened, one skin and
\* one companion are active and each active item is unlocked; a handleEquip
\* call with a locked item of the page would change nothing, and one with
\* any item of the page would leave the items of the other type as they
\* are.
C28_OneActivePerType ==
    /\ \A type \in {"skin", "companion"} :
          Cardinality(ActiveItems(storeItems, type)) = 1
    /\ \A k \in 1..Len(storeItems) :
          storeItems[k].active => storeItems[k].unlocked
    /\ \A k \in 1..Len(rendered.storeItems) :
          LET item == rendered.storeItems[k]
              after == HandleEquip(storeItems, item)
          IN  /\ ~item.unlocked => after = storeItems
              /\ \A j \in 1..Len(storeItems) :
                    storeItems[j].type # item.type => after[j] = storeItems[j]

\* C28 witness: a skin has been purchased and equipped and the canvas shows
\* it, the companion is the one of the start, and items are still locked.
C28_Witness ==
    /\ ActiveSkin(storeItems) # "skin_default"
    /\ activeSkinRef = ActiveSkin(storeItems)
    /\ ActiveCompanion(storeItems) = "comp_butterfly"
    /\ spent > 0
    /\ \E k \in 1..Len(storeItems) : ~storeItems[k].unlocked

\* the emotion of a smoothed curvature (1/1000)
EmotionOf(curvature) ==
    IF curvature > 40 THEN "HAPPY"
    ELSE IF curvature < -30 THEN "SAD"
    ELSE "CALM"

====
